---------------------------- MODULE Spec2Model ----------------------------
(***************************************************************************)
(* A model of the ofborg pipeline: the webhook receiver                    *)
(* (bin/github-webhook-receiver.rs), the broker topology it declares, and  *)
(* the SimpleWorker implementations (tasks/*.rs) together with the         *)
(* consumer loop that settles each delivery.                               *)
(*                                                                         *)
(* Text is modelled as TLA+ strings handled character by character; a JSON *)
(* document is the sequence of its leaf members in document order, each a  *)
(* record [k |-> dotted path, v |-> value], and bytes that are not JSON    *)
(* are the member Garbage.                                                 *)
(***************************************************************************)
EXTENDS Naturals, Sequences, FiniteSets, TLC

VARIABLES
    \* ---- webhook receiver and broker ----
    whReq,      \* the request the handler ran on last
    whRes,      \* the response it produced
    whSent,     \* the basic_publish calls of that request, with their outcome
    exchange,   \* messages the broker accepted on github-events, in order
    queues,     \* queue name -> messages routed to it, in order
    whCount,    \* requests handled so far
    \* ---- one delivery to one worker, and the consumer loop around it ----
    wPhase,     \* idle, delivered, decoded, evaluating, dispatching,
                \* settled, panicked
    wWorker,    \* the worker the delivery is for
    wBody,      \* the body of the delivery
    wDecoded,   \* how msg_to_job ended: none, ok, err, panic
    wJob,       \* <<job>> once msg_to_job returned Ok(job)
    wActions,   \* the Actions consumer returned
    wCursor,    \* how many of them the loop has carried out
    wOutbox,    \* the messages it published for this delivery, in order
    wSettled,   \* the acks and nacks sent for this delivery, in order
    wNotified,  \* the stats events notified while handling it, in order
    recorded,   \* what the stats collector handed its MetricCollector for it
    oneEval,    \* the evaluator's OneEval: where evaluate_job is, its locals
    github,     \* the forge, as far as the evaluated pull request goes
    wCount,     \* deliveries so far
    \* ---- the out-path diff and the taggers, each on its own ----
    outPathDiff,    \* OutPathDiff: original and current
    diffed,         \* what package_diff and calculate_rebuild returned last
    rebuildTagger,  \* RebuildTagger: the counts parsed, selected
    maintainerTagger,   \* MaintainerPrTagger: what was recorded, selected
    \* ---- the log read API, the vending machine, label_from_title ----
    logApi,     \* the request the handler ran on last, what it read and sent
    vending,    \* GithubAppVendingMachine: its two caches, its requests
    titled      \* label_from_title: the title it was given, the labels

whVars == <<whReq, whRes, whSent, exchange, queues, whCount>>

wVars == <<wPhase, wWorker, wBody, wDecoded, wJob, wActions, wCursor,
           wOutbox, wSettled, wNotified, recorded, oneEval, github, wCount>>

tVars == <<outPathDiff, diffed, rebuildTagger, maintainerTagger>>

aVars == <<logApi, vending, titled>>

vars == <<whVars, wVars, tVars, aVars>>

-----------------------------------------------------------------------------
(* Bounds of the model.                                                    *)

\* requests the webhook receiver handles in one behaviour
MaxRequests == 2

\* deliveries the workers consume in one behaviour
MaxDeliveries == 2

-----------------------------------------------------------------------------
(* Text.                                                                   *)

None == "<none>"

CharAt(s, i) == SubSeq(s, i, i)

\* the first position of character c in s, 0 when absent
IndexOf(s, c) ==
    IF \E i \in 1..Len(s) : CharAt(s, i) = c
    THEN CHOOSE i \in 1..Len(s) :
            CharAt(s, i) = c /\ \A j \in 1..(i - 1) : CharAt(s, j) # c
    ELSE 0

StartsWith(s, p) == Len(s) >= Len(p) /\ SubSeq(s, 1, Len(p)) = p

\* str::splitn(2, c): at most two components, split at the first c
SplitN2(s, c) ==
    LET i == IndexOf(s, c)
    IN  IF i = 0 THEN <<s>> ELSE <<SubSeq(s, 1, i - 1), SubSeq(s, i + 1, Len(s))>>

\* the words of s between occurrences of c
RECURSIVE Split(_, _)
Split(s, c) ==
    LET i == IndexOf(s, c)
    IN  IF i = 0 THEN <<s>>
        ELSE <<SubSeq(s, 1, i - 1)>> \o Split(SubSeq(s, i + 1, Len(s)), c)

UpperChars == "ABCDEFGHIJKLMNOPQRSTUVWXYZ"
LowerChars == "abcdefghijklmnopqrstuvwxyz"

LowerChar(c) ==
    LET i == IndexOf(UpperChars, c)
    IN  IF i = 0 THEN c ELSE CharAt(LowerChars, i)

\* str::to_lowercase
RECURSIVE ToLowercase(_)
ToLowercase(s) ==
    IF s = "" THEN "" ELSE LowerChar(Head(s)) \o ToLowercase(Tail(s))

HexDigits == "0123456789abcdef"

\* the value of one hex digit, either case; 16 when c is no hex digit
HexVal(c) ==
    LET i == IndexOf(HexDigits, LowerChar(c))
    IN  IF i = 0 THEN 16 ELSE i - 1

\* FromHexError, told from every byte string by a value no byte has
HexError == <<256>>

\* hex::decode: the bytes, or HexError on an odd length or a non-hex digit
RECURSIVE HexDecode(_)
HexDecode(s) ==
    IF s = "" THEN <<>>
    ELSE IF Len(s) = 1 THEN HexError
    ELSE LET hi   == HexVal(CharAt(s, 1))
             lo   == HexVal(CharAt(s, 2))
             rest == HexDecode(SubSeq(s, 3, Len(s)))
         IN  IF hi = 16 \/ lo = 16 \/ rest = HexError THEN HexError
             ELSE <<hi * 16 + lo>> \o rest

\* the lower-case hex text of a byte string, as the forge writes a signature
RECURSIVE HexEncode(_)
HexEncode(bytes) ==
    IF bytes = <<>> THEN ""
    ELSE CharAt(HexDigits, (Head(bytes) \div 16) + 1)
         \o CharAt(HexDigits, (Head(bytes) % 16) + 1)
         \o HexEncode(Tail(bytes))

-----------------------------------------------------------------------------
(* JSON documents.                                                         *)

\* a value: a string, a number (its digits), null, or no value at all
JStr(s) == [t |-> "string", s |-> s]
JNum(s) == [t |-> "number", s |-> s]
Null    == [t |-> "null", s |-> ""]
Missing == [t |-> "missing", s |-> ""]

\* the marker of an object or array that has a value of its own to tell
\* (a member that may be null, absent or empty)
Obj == [t |-> "object", s |-> ""]

\* bytes that are not JSON, with the text they hold
Bytes(text) == [k |-> "<garbage>", v |-> JStr(text)]
Garbage == Bytes("}{")

\* a string member, a number member, a null member, an object's marker
M(k, s) == [k |-> k, v |-> JStr(s)]
N(k, s) == [k |-> k, v |-> JNum(s)]
Nul(k)  == [k |-> k, v |-> Null]
O(k)    == [k |-> k, v |-> Obj]

IsJson(raw) == \A i \in 1..Len(raw) : raw[i].k # "<garbage>"

\* the value of the member at path k, Missing when the document has none
Get(raw, k) ==
    IF \E i \in 1..Len(raw) : raw[i].k = k
    THEN raw[CHOOSE i \in 1..Len(raw) :
                raw[i].k = k /\ \A j \in 1..(i - 1) : raw[j].k # k].v
    ELSE Missing

\* a required member of type String, and one of type u64
HasStr(raw, k) == Get(raw, k).t = "string"
HasNum(raw, k) == Get(raw, k).t = "number"


-----------------------------------------------------------------------------
(* ghevent::GenericWebhook, and what serde_json makes of a body.           *)

DecodeError == [err |-> "DecodeError"]

\* ghevent::Repository: owner.login, name, full_name and clone_url are all
\* required strings.
HasRepository(raw) ==
    /\ HasStr(raw, "repository.owner.login")
    /\ HasStr(raw, "repository.name")
    /\ HasStr(raw, "repository.full_name")
    /\ HasStr(raw, "repository.clone_url")

Repository(raw) ==
    [owner     |-> [login |-> Get(raw, "repository.owner.login").s],
     name      |-> Get(raw, "repository.name").s,
     full_name |-> Get(raw, "repository.full_name").s,
     clone_url |-> Get(raw, "repository.clone_url").s]

\* serde_json::from_slice::<GenericWebhook>
ParseGenericWebhook(raw) ==
    IF IsJson(raw) /\ HasRepository(raw)
    THEN [repository |-> Repository(raw)]
    ELSE DecodeError

\* serde_json::to_string of a Repository: its four members in field order
SerializeRepository(r) ==
    <<M("repository.owner.login", r.owner.login),
      M("repository.name", r.name),
      M("repository.full_name", r.full_name),
      M("repository.clone_url", r.clone_url)>>

-----------------------------------------------------------------------------
(* The broker: the topic exchange github-events and the queues bound to it.*)

\* setup_amqp of the webhook receiver, and the binding the evaluation
\* filter adds to mass-rebuild-check-inputs
ReceiverBindingsCatchall ==
    {[queue |-> "build-inputs",              key |-> "issue_comment.*"],
     [queue |-> "github-events-unknown",     key |-> "#"],
     [queue |-> "mass-rebuild-check-inputs", key |-> "pull_request.nixos/nixpkgs"]}

ReceiverBindings ==
    {[queue |-> "build-inputs",              key |-> "issue_comment.*"],
     [queue |-> "github-events-unknown",     key |-> "unknown.*"],
     [queue |-> "mass-rebuild-check-inputs", key |-> "pull_request.nixos/nixpkgs"]}

FilterBindings ==
    {[queue |-> "mass-rebuild-check-inputs", key |-> "pull_request.nixos/*"]}

Bindings == ReceiverBindings \cup FilterBindings

QueueNames == {b.queue : b \in Bindings}

\* topic matching on dot-separated words: * is exactly one word, # is any
\* number of words; a word that merely contains * is literal
RECURSIVE MatchWords(_, _)
MatchWords(p, k) ==
    IF p = <<>> THEN k = <<>>
    ELSE IF Head(p) = "#"
         THEN MatchWords(Tail(p), k) \/ (k # <<>> /\ MatchWords(p, Tail(k)))
         ELSE /\ k # <<>>
              /\ Head(p) = "*" \/ Head(p) = Head(k)
              /\ MatchWords(Tail(p), Tail(k))

TopicMatch(pattern, routing_key) ==
    MatchWords(Split(pattern, "."), Split(routing_key, "."))

\* the queues a message with this routing key is copied to
RouteTo(routing_key) ==
    {q \in QueueNames :
        \E b \in Bindings : b.queue = q /\ TopicMatch(b.key, routing_key)}

\* the queues after the exchange accepted msg
Routed(qs, msg) ==
    [q \in QueueNames |->
        IF q \in RouteTo(msg.routing_key) THEN Append(qs[q], msg) ELSE qs[q]]

-----------------------------------------------------------------------------
(* The request handler of the webhook receiver.                            *)

\* the trimmed content of webhook_secret_file
WebhookSecret == "s3cret"

ReadError == <<[k |-> "<read_to_end failed>", v |-> Null]>>

\* every body of the model, in a fixed order
WebhookBodies ==
    << \* a pull_request event on NixOS/Nixpkgs
       <<M("action", "opened"), N("number", "7"),
         M("repository.owner.login", "NixOS"), M("repository.name", "Nixpkgs"),
         M("repository.full_name", "NixOS/Nixpkgs"),
         M("repository.clone_url", "https://github.com/NixOS/Nixpkgs.git"),
         M("sender.login", "alice")>>,
       \* the repository of another organisation, members in another order
       <<M("repository.clone_url", "https://github.com/Acme/Tools.git"),
         M("repository.full_name", "Acme/Tools"),
         M("repository.name", "Tools"),
         M("repository.owner.login", "Acme")>>,
       \* another repository of the nixos organisation
       <<M("repository.owner.login", "NixOS"), M("repository.name", "ofborg"),
         M("repository.full_name", "NixOS/ofborg"),
         M("repository.clone_url", "https://github.com/NixOS/ofborg.git"),
         M("zen", "Keep it logically awesome.")>>,
       \* JSON that names the repository but lacks the other members
       <<M("repository.full_name", "NixOS/Nixpkgs")>>,
       \* an event without a repository
       <<M("zen", "Keep it logically awesome."), N("hook_id", "1")>>,
       \* not JSON
       <<Garbage>> >>

BodyIndex(raw) == CHOOSE i \in 1..Len(WebhookBodies) : WebhookBodies[i] = raw

\* HMAC-SHA256 stands as a keyed function that is injective on the keys and
\* bodies of the model: one byte for the key, one for the body.
HmacSha256(key, raw) == <<Len(key) * 16 + (Len(key) - 1), BodyIndex(raw)>>

\* Hmac::new_from_slice accepts a key of any length
HmacKeyOk(key) == Len(key) >= 0

\* Mac::verify_slice: the whole tag, never a prefix of it
VerifySlice(key, raw, hash) == hash = HmacSha256(key, raw)

AlgoAny(algo) == TRUE

AlgoOk(algo) == algo = "sha256"

PublishReserialized(raw, input) == SerializeRepository(input.repository)

\* the body handed to basic_publish: the bytes that were read
PublishBody(raw, input) == raw

RoutingKeyAsSent(event_type, full_name) == event_type \o "." \o full_name

\* format!("{event_type}.{}", input.repository.full_name.to_lowercase())
RoutingKey(event_type, full_name) ==
    event_type \o "." \o ToLowercase(full_name)

Response(status, text) == [status |-> status, text |-> text, publish |-> <<>>]

\* lines 173-202: the signature is verified
Forward(event, raw) ==
    LET input == ParseGenericWebhook(raw)
    IN  IF input = DecodeError THEN Response(400, "Invalid JSON")
        ELSE IF event = None THEN Response(400, "Missing event type")
        ELSE [status  |-> 204,
              text    |-> "",
              publish |->
                <<[exchange      |-> "github-events",
                   routing_key   |-> RoutingKey(event, input.repository.full_name),
                   body          |-> PublishBody(raw, input),
                   content_type  |-> "application/json",
                   delivery_mode |-> 2]>>]

\* lines 130-171: the signature validation
Validate(sig, event, raw) ==
    IF sig = None THEN Response(400, "Missing signature header")
    ELSE LET components == SplitN2(sig, "=")
         IN  IF Len(components) < 2 THEN Response(400, "Signature hash missing")
             ELSE LET algo == components[1]
                      hash == HexDecode(components[2])
                  IN  IF hash = HexError
                      THEN Response(400, "Invalid signature hash hex")
                      ELSE IF ~AlgoOk(algo)
                      THEN Response(400, "Invalid signature hash method")
                      ELSE IF ~HmacKeyOk(WebhookSecret)
                      THEN Response(500, "")
                      ELSE IF ~VerifySlice(WebhookSecret, raw, hash)
                      THEN Response(400, "Signature verification failed")
                      ELSE Forward(event, raw)

\* the closure given to handle_threads: what it answers and what it hands
\* to basic_publish
Handler(method, sig, event, raw) ==
    IF method # "POST" THEN Response(405, "")
    ELSE IF raw = ReadError THEN Response(500, "")
    ELSE Validate(sig, event, raw)

Methods == {"POST", "GET"}

EventHeaders == {None, "pull_request", "issue_comment", "unknown"}

\* the X-Hub-Signature-256 headers a client may send with a body
SignatureHeaders(raw) ==
    LET good == HexEncode(HmacSha256(WebhookSecret, raw))
    IN  {None,
         "sha256=" \o good,
         "sha256=" \o SubSeq(good, 1, 2) \o "0A",
         "sha1=" \o good,
         "=" \o good,
         "sha256",
         "sha256=",
         "sha256=zz" \o good,
         "sha256=" \o SubSeq(good, 1, 3),
         "sha256=" \o SubSeq(good, 1, 2),
         "sha256=" \o HexEncode(HmacSha256("guess", raw))}

NoRequest == [method |-> None, sig |-> None, event |-> None, raw |-> <<>>]
NoResponse == [status |-> 0, text |-> ""]

\* One run of the handler closure on one request.
HandleRequest ==
    /\ whReq = NoRequest
    /\ whCount < MaxRequests
    /\ \E method \in Methods, event \in EventHeaders,
          raw \in {WebhookBodies[i] : i \in 1..Len(WebhookBodies)} \cup {ReadError} :
        \E sig \in IF raw = ReadError THEN {None} ELSE SignatureHeaders(raw) :
            LET out == Handler(method, sig, event, raw)
            IN  \* basic_publish returns Ok or Err; the handler binds the
                \* result to _confirmation and does not look at it
                \E accepted \in IF out.publish = <<>> THEN {TRUE} ELSE BOOLEAN :
                    /\ whReq' = [method |-> method, sig |-> sig,
                                 event |-> event, raw |-> raw]
                    /\ whRes' = [status |-> out.status, text |-> out.text]
                    /\ whSent' = [i \in 1..Len(out.publish) |->
                                    [msg |-> out.publish[i], accepted |-> accepted]]
                    /\ IF out.publish # <<>> /\ accepted
                       THEN /\ exchange' = Append(exchange, out.publish[1])
                            /\ queues' = Routed(queues, out.publish[1])
                       ELSE UNCHANGED <<exchange, queues>>
                    /\ whCount' = whCount + 1

\* The closure has returned: the response is written and the request, the
\* response and the publish result go out of scope.
SendResponse ==
    /\ whReq # NoRequest
    /\ whReq' = NoRequest
    /\ whRes' = NoResponse
    /\ whSent' = <<>>
    /\ UNCHANGED <<exchange, queues, whCount>>

InitWebhook ==
    /\ whReq = NoRequest
    /\ whRes = NoResponse
    /\ whSent = <<>>
    /\ exchange = <<>>
    /\ queues = [q \in QueueNames |-> <<>>]
    /\ whCount = 0

NextWebhook ==
    \/ HandleRequest /\ UNCHANGED <<wVars, tVars, aVars>>
    \/ SendResponse /\ UNCHANGED <<wVars, tVars, aVars>>


-----------------------------------------------------------------------------
(* worker.rs: the actions a consumer returns.                              *)

Ack         == [type |-> "Ack"]
NackRequeue == [type |-> "NackRequeue"]
NackDump    == [type |-> "NackDump"]
Publish(msg) == [type |-> "Publish", msg |-> msg]

IsTerminal(a) == a.type \in {"Ack", "NackRequeue", "NackDump"}
IsPublish(a)  == a.type = "Publish"

\* publish_serde_action: content is serde_json::to_string(msg)
publish_serde_action(exchange_, routing_key, content) ==
    Publish([exchange     |-> exchange_,
             routing_key  |-> routing_key,
             mandatory    |-> FALSE,
             immediate    |-> FALSE,
             content_type |-> "application/json",
             content      |-> content])

-----------------------------------------------------------------------------
(* message::{Repo, Pr} and message::evaluationjob::EvaluationJob.          *)

\* serde_json::to_string(&EvaluationJob)
SerializeRepoPr(repo, pr) ==
    <<M("repo.owner", repo.owner), M("repo.name", repo.name),
      M("repo.full_name", repo.full_name), M("repo.clone_url", repo.clone_url),
      N("pr.number", pr.number), M("pr.head_sha", pr.head_sha)>>
    \o (IF pr.target_branch = <<>> THEN <<Nul("pr.target_branch")>>
        ELSE <<M("pr.target_branch", pr.target_branch[1])>>)

SerializeEvaluationJob(job) == SerializeRepoPr(job.repo, job.pr)

\* evaluationjob::from: serde_json::from_slice::<EvaluationJob>
ParseEvaluationJob(raw) ==
    IF /\ IsJson(raw)
       /\ \A k \in {"repo.owner", "repo.name", "repo.full_name",
                    "repo.clone_url", "pr.head_sha"} : HasStr(raw, k)
       /\ HasNum(raw, "pr.number")
       /\ Get(raw, "pr.target_branch").t \in {"string", "null", "missing"}
    THEN [repo |-> [owner     |-> Get(raw, "repo.owner").s,
                    name      |-> Get(raw, "repo.name").s,
                    full_name |-> Get(raw, "repo.full_name").s,
                    clone_url |-> Get(raw, "repo.clone_url").s],
          pr   |-> [number        |-> Get(raw, "pr.number").s,
                    head_sha      |-> Get(raw, "pr.head_sha").s,
                    target_branch |->
                        IF HasStr(raw, "pr.target_branch")
                        THEN <<Get(raw, "pr.target_branch").s>> ELSE <<>>]]
    ELSE DecodeError

-----------------------------------------------------------------------------
(* acl::Acl, as the configuration builds it.                               *)

\* runner.repos and runner.trusted_users of the configuration
AclRepos   == {"nixos/nixpkgs"}
AclTrusted == {"alice"}

\* Acl::is_repo_eligible: membership in the repo set, letter case ignored
\* (tests::changed_base admits NixOS/nixpkgs under the entry nixos/nixpkgs)
is_repo_eligible(full_name) == ToLowercase(full_name) \in AclRepos

-----------------------------------------------------------------------------
(* ghevent::PullRequestEvent and the evaluation filter.                    *)

\* PullRequestAction: the four known names, anything else is Unknown
PullRequestAction(name) ==
    CASE name = "edited"      -> "Edited"
      [] name = "opened"      -> "Opened"
      [] name = "reopened"    -> "Reopened"
      [] name = "synchronize" -> "Synchronize"
      [] OTHER                -> "Unknown"

\* PullRequestState has the variants open and closed and no other
PullRequestState(name) ==
    CASE name = "open"   -> "Open"
      [] name = "closed" -> "Closed"
      [] OTHER           -> "<no variant>"

\* Option<PullRequestChanges>, each Option a sequence of at most one value;
\* DecodeError when a present base lacks ref.from or sha.from
ParseChanges(raw) ==
    IF Get(raw, "changes").t \in {"missing", "null"} THEN [opt |-> <<>>]
    ELSE IF Get(raw, "changes.base").t \in {"missing", "null"}
    THEN [opt |-> <<[base |-> <<>>]>>]
    ELSE IF HasStr(raw, "changes.base.ref.from")
            /\ HasStr(raw, "changes.base.sha.from")
    THEN [opt |->
            <<[base |-> <<[git_ref |-> [from |-> Get(raw, "changes.base.ref.from").s],
                           sha     |-> [from |-> Get(raw, "changes.base.sha.from").s]]>>]>>]
    ELSE DecodeError

\* serde_json::from_slice::<PullRequestEvent>
ParsePullRequestEvent(raw) ==
    IF /\ IsJson(raw)
       /\ HasStr(raw, "action")
       /\ HasNum(raw, "number")
       /\ HasRepository(raw)
       /\ HasStr(raw, "pull_request.state")
       /\ PullRequestState(Get(raw, "pull_request.state").s) \in {"Open", "Closed"}
       /\ \A k \in {"pull_request.base.ref", "pull_request.base.sha",
                    "pull_request.head.ref", "pull_request.head.sha"} :
                HasStr(raw, k)
       /\ ParseChanges(raw) # DecodeError
    THEN [action       |-> PullRequestAction(Get(raw, "action").s),
          number       |-> Get(raw, "number").s,
          repository   |-> Repository(raw),
          pull_request |->
            [state |-> PullRequestState(Get(raw, "pull_request.state").s),
             base  |-> [git_ref |-> Get(raw, "pull_request.base.ref").s,
                        sha     |-> Get(raw, "pull_request.base.sha").s],
             head  |-> [git_ref |-> Get(raw, "pull_request.head.ref").s,
                        sha     |-> Get(raw, "pull_request.head.sha").s]],
          changes      |-> ParseChanges(raw).opt]
    ELSE DecodeError

\* EvaluationFilterWorker::msg_to_job
EvaluationFilterDecode(raw) ==
    LET event == ParsePullRequestEvent(raw)
    IN  IF event = DecodeError THEN [how |-> "err", job |-> <<>>]
        ELSE [how |-> "ok", job |-> <<event>>]

\* Interesting with any edit that carries changes taken for a base change
InterestingAnyEdit(job) ==
    CASE job.action = "Opened"      -> TRUE
      [] job.action = "Synchronize" -> TRUE
      [] job.action = "Reopened"    -> TRUE
      [] job.action = "Edited"      -> job.changes # <<>>
      [] OTHER                      -> FALSE

\* lines 48-60 of the consumer
Interesting(job) ==
    CASE job.action = "Opened"      -> TRUE
      [] job.action = "Synchronize" -> TRUE
      [] job.action = "Reopened"    -> TRUE
      [] job.action = "Edited"      ->
            IF job.changes # <<>> THEN job.changes[1].base # <<>> ELSE FALSE
      [] OTHER                      -> FALSE

\* FilterAccept with the branch of the head taken for the target branch
FilterAcceptHeadAsTarget(job) ==
    <<publish_serde_action(None, "mass-rebuild-check-jobs",
        SerializeEvaluationJob(
            [repo |-> [clone_url |-> job.repository.clone_url,
                       full_name |-> job.repository.full_name,
                       owner     |-> job.repository.owner.login,
                       name      |-> job.repository.name],
             pr   |-> [number        |-> job.number,
                       head_sha      |-> job.pull_request.head.sha,
                       target_branch |-> <<job.pull_request.head.git_ref>>]])),
      Ack>>

\* FilterAccept with the Ack pushed before the job is published
FilterAcceptAckFirst(job) ==
    <<Ack,
      publish_serde_action(None, "mass-rebuild-check-jobs",
        SerializeEvaluationJob(
            [repo |-> [clone_url |-> job.repository.clone_url,
                       full_name |-> job.repository.full_name,
                       owner     |-> job.repository.owner.login,
                       name      |-> job.repository.name],
             pr   |-> [number        |-> job.number,
                       head_sha      |-> job.pull_request.head.sha,
                       target_branch |-> <<job.pull_request.base.git_ref>>]]))>>

\* lines 75-96 of the consumer
FilterAccept(job) ==
    LET repo_msg == [clone_url |-> job.repository.clone_url,
                     full_name |-> job.repository.full_name,
                     owner     |-> job.repository.owner.login,
                     name      |-> job.repository.name]
        pr_msg   == [number        |-> job.number,
                     head_sha      |-> job.pull_request.head.sha,
                     target_branch |-> <<job.pull_request.base.git_ref>>]
        msg      == [repo |-> repo_msg, pr |-> pr_msg]
    IN  <<publish_serde_action(None, "mass-rebuild-check-jobs",
                               SerializeEvaluationJob(msg)),
          Ack>>

\* the consumer without its look at the state of the pull request
EvaluationFilterAnyState(job) ==
    IF ~is_repo_eligible(job.repository.full_name) THEN <<Ack>>
    ELSE IF ~Interesting(job) THEN <<Ack>>
    ELSE FilterAccept(job)

\* EvaluationFilterWorker::consumer
EvaluationFilterConsumer(job) ==
    IF ~is_repo_eligible(job.repository.full_name) THEN <<Ack>>
    ELSE IF job.pull_request.state # "Open" THEN <<Ack>>
    ELSE IF ~Interesting(job) THEN <<Ack>>
    ELSE FilterAccept(job)

-----------------------------------------------------------------------------
(* stats::EventMessage and the stats collector.                            *)

\* the unit variants of stats::Event the workers of src/ notify
EventNames == {"JobReceived", "JobDecodeSuccess", "JobDecodeFailure",
               "IssueAlreadyClosed", "IssueFetchFailed",
               "TaskEvaluationCheckComplete", "StatCollectorBogusEvent"}

\* the position of an element of an array, in decimal
RECURSIVE Position(_)
Position(n) ==
    IF n < 10 THEN CharAt("0123456789", n + 1)
    ELSE Position(n \div 10) \o CharAt("0123456789", (n % 10) + 1)

\* the elements of the array at path k, while they are all strings
RECURSIVE Elements(_, _, _)
Elements(raw, k, i) ==
    LET idx == Position(i)
    IN  IF HasStr(raw, k \o "." \o idx)
        THEN <<Get(raw, k \o "." \o idx).s>> \o Elements(raw, k, i + 1)
        ELSE <<>>

\* serde_json::from_slice::<EventMessage>
ParseEventMessage(raw) ==
    LET events == Elements(raw, "events", 0)
    IN  IF /\ IsJson(raw)
           /\ HasStr(raw, "sender")
           /\ Get(raw, "events") = Obj
           /\ \A i \in 1..Len(events) : events[i] \in EventNames
        THEN [sender |-> Get(raw, "sender").s, events |-> events]
        ELSE DecodeError

\* serde_json::from_slice::<Event> of the body put between double quotes
ParseLegacyEvent(raw) ==
    IF Len(raw) = 1 /\ ~IsJson(raw) /\ raw[1].v.s \in EventNames
    THEN [event |-> raw[1].v.s]
    ELSE DecodeError

\* StatCollectorWorker::msg_to_job, with the events it notifies
StatsDecode(raw) ==
    LET e == ParseEventMessage(raw)
        l == ParseLegacyEvent(raw)
    IN  IF e # DecodeError
        THEN [how |-> "ok", job |-> <<e>>, notify |-> <<>>]
        ELSE IF l # DecodeError
        THEN [how |-> "ok",
              job |-> <<[sender |-> "", events |-> <<l.event>>]>>,
              notify |-> <<"StatCollectorLegacyEvent">>]
        ELSE [how |-> "err", job |-> <<>>,
              notify |-> <<"StatCollectorBogusEvent">>]

\* a consumer that acks once for the job and once more
StatsConsumerAckTwice(job) == <<Ack, Ack>>

\* StatCollectorWorker::consumer
StatsConsumer(job) == <<Ack>>

\* what the consumer hands to MetricCollector::record, in order
StatsRecorded(job) ==
    [i \in 1..Len(job.events) |-> <<job.sender, job.events[i]>>]

-----------------------------------------------------------------------------
(* ghevent::IssueComment and the comment filter.                           *)

\* IssueCommentAction has the variants created, edited and deleted
IssueCommentAction(name) ==
    CASE name = "created" -> "Created"
      [] name = "edited"  -> "Edited"
      [] name = "deleted" -> "Deleted"
      [] OTHER            -> "<no variant>"

\* serde_json::from_slice::<IssueComment>
ParseIssueComment(raw) ==
    IF /\ IsJson(raw)
       /\ HasStr(raw, "action")
       /\ IssueCommentAction(Get(raw, "action").s) # "<no variant>"
       /\ HasStr(raw, "comment.body")
       /\ HasStr(raw, "comment.user.login")
       /\ HasRepository(raw)
       /\ HasNum(raw, "issue.number")
    THEN [action     |-> IssueCommentAction(Get(raw, "action").s),
          comment    |-> [body |-> Get(raw, "comment.body").s,
                          user |-> [login |-> Get(raw, "comment.user.login").s]],
          repository |-> Repository(raw),
          issue      |-> [number |-> Get(raw, "issue.number").s]]
    ELSE DecodeError

\* GitHubCommentWorker::msg_to_job: the Err arm logs and panics
CommentDecode(raw) ==
    LET comment == ParseIssueComment(raw)
    IN  IF comment = DecodeError THEN [how |-> "panic", job |-> <<>>]
        ELSE [how |-> "ok", job |-> <<comment>>]

Build(subset, attrs) == [kind |-> "Build", subset |-> subset, attrs |-> attrs]
Eval == [kind |-> "Eval", subset |-> "", attrs |-> <<>>]

\* commentparser::parse on the comment bodies of the model: an Option of the
\* instructions, in the order written
commentparser_parse(body) ==
    CASE body = "@ofborg eval"                    -> <<<<Eval>>>>
      [] body = "@ofborg build hello"             -> <<<<Build("Nixpkgs", <<"hello">>)>>>>
      [] body = "@ofborg test nginx"              ->
            <<<<Build("NixOS", <<"nixosTests.nginx">>)>>>>
      [] body = "@ofborg build hello @ofborg eval" ->
            <<<<Build("Nixpkgs", <<"hello">>), Eval>>>>
      [] body = "@ofborg test nginx @ofborg build hello" ->
            <<<<Build("NixOS", <<"nixosTests.nginx">>),
                Build("Nixpkgs", <<"hello">>)>>>>
      [] OTHER                                    -> <<>>

\* systems::System
Systems == <<"x86_64-linux", "aarch64-linux", "x86_64-darwin", "aarch64-darwin">>

can_run_nixos_tests(system) == system \in {"x86_64-linux", "aarch64-linux"}

\* System::as_build_destination: (exchange, routing key)
as_build_destination(system) == <<None, "build-inputs-" \o system>>

\* .filter(|x| x.can_run_nixos_tests()): the systems kept, in order
RECURSIVE NixosTestSystems(_)
NixosTestSystems(seq) ==
    IF seq = <<>> THEN <<>>
    ELSE (IF can_run_nixos_tests(Head(seq)) THEN <<Head(seq)>> ELSE <<>>)
         \o NixosTestSystems(Tail(seq))

\* Acl::build_job_architectures_for_user_repo: none outside the repo set,
\* every system for a trusted user, the sandboxed ones for anyone else
build_job_architectures_for_user_repo(user, repo) ==
    IF ~is_repo_eligible(repo) THEN <<>>
    ELSE IF ToLowercase(user) \in AclTrusted THEN Systems
    ELSE NixosTestSystems(Systems)

\* the members of an array of strings at path k
Array(k, seq) ==
    <<O(k)>> \o [i \in 1..Len(seq) |-> M(k \o "." \o Position(i - 1), seq[i])]

\* serde_json::to_string(&BuildJob), logs and statusreport being None
SerializeBuildJob(job) ==
    SerializeRepoPr(job.repo, job.pr)
    \o <<M("subset", job.subset)>> \o Array("attrs", job.attrs)
    \o <<Nul("logs"), Nul("statusreport"), M("request_id", job.request_id)>>

\* serde_json::to_string(&QueuedBuildJobs)
SerializeQueuedBuildJobs(job, architectures) ==
    LET inner == SerializeBuildJob(job)
    IN  [i \in 1..Len(inner) |-> [k |-> "job." \o inner[i].k, v |-> inner[i].v]]
        \o Array("architectures", architectures)

\* BuildJob::new
BuildJob(repo, pr, subset, attrs, request_id) ==
    [repo |-> repo, pr |-> pr, subset |-> subset, attrs |-> attrs,
     request_id |-> request_id]

\* one publish of job per destination, in order
PublishToEach(destinations, content) ==
    [i \in 1..Len(destinations) |->
        publish_serde_action(as_build_destination(destinations[i])[1],
                             as_build_destination(destinations[i])[2],
                             content)]

\* the publishes of one build instruction with the record listing the
\* destinations of the commenter, whatever the subset
CommentBuildAllListed(instruction, build_destinations, repo_msg, pr_msg, request_id) ==
    LET dests == IF instruction.subset = "NixOS"
                 THEN NixosTestSystems(build_destinations)
                 ELSE build_destinations
        msg   == BuildJob(repo_msg, pr_msg, instruction.subset,
                          instruction.attrs, request_id)
    IN  PublishToEach(dests, SerializeBuildJob(msg))
        \o <<publish_serde_action("build-results", None,
                                  SerializeQueuedBuildJobs(msg, build_destinations))>>

\* lines 106-143: the publishes of one build instruction
CommentBuild(instruction, build_destinations, repo_msg, pr_msg, request_id) ==
    LET dests == IF instruction.subset = "NixOS"
                 THEN NixosTestSystems(build_destinations)
                 ELSE build_destinations
        msg   == BuildJob(repo_msg, pr_msg, instruction.subset,
                          instruction.attrs, request_id)
    IN  PublishToEach(dests, SerializeBuildJob(msg))
        \o <<publish_serde_action("build-results", None,
                                  SerializeQueuedBuildJobs(msg, dests))>>

\* lines 102-158: the loop over the instructions; ids are the values
\* Uuid::new_v4 returns, one for each build instruction
RECURSIVE CommentInstructions(_, _, _, _, _)
CommentInstructions(instructions, build_destinations, repo_msg, pr_msg, ids) ==
    IF instructions = <<>> THEN <<>>
    ELSE LET i == Head(instructions)
         IN  IF i.kind = "Build"
             THEN CommentBuild(i, build_destinations, repo_msg, pr_msg, Head(ids))
                  \o CommentInstructions(Tail(instructions), build_destinations,
                                         repo_msg, pr_msg, Tail(ids))
             ELSE <<publish_serde_action(None, "mass-rebuild-check-jobs",
                        SerializeEvaluationJob([repo |-> repo_msg, pr |-> pr_msg]))>>
                  \o CommentInstructions(Tail(instructions), build_destinations,
                                         repo_msg, pr_msg, ids)

\* lines 43-63: consumer gets as far as asking the forge for the pull
\* request
AsksForPull(job) ==
    /\ job.action # "Deleted"
    /\ commentparser_parse(job.comment.body) # <<>>
    /\ build_job_architectures_for_user_repo(job.comment.user.login,
                                             job.repository.full_name) # <<>>

\* consumer without the test for build destinations
CommentConsumerUnchecked(job, pr, ids) ==
    LET instructions == commentparser_parse(job.comment.body)
        build_destinations ==
            build_job_architectures_for_user_repo(job.comment.user.login,
                                                  job.repository.full_name)
        repo_msg == [clone_url |-> job.repository.clone_url,
                     full_name |-> job.repository.full_name,
                     owner     |-> job.repository.owner.login,
                     name      |-> job.repository.name]
    IN  IF job.action = "Deleted" THEN <<Ack>>
        ELSE IF instructions = <<>> THEN <<Ack>>
        ELSE IF ~pr.ok THEN <<Ack>>
        ELSE CommentInstructions(
                instructions[1], build_destinations, repo_msg,
                [number        |-> job.issue.number,
                 head_sha      |-> pr.head_sha,
                 target_branch |-> <<pr.base_ref>>],
                ids)
             \o <<Ack>>

\* GitHubCommentWorker::consumer; pr is what pulls().get() returned, ids the
\* fresh request ids
CommentConsumer(job, pr, ids) ==
    LET instructions == commentparser_parse(job.comment.body)
        build_destinations ==
            build_job_architectures_for_user_repo(job.comment.user.login,
                                                  job.repository.full_name)
        repo_msg == [clone_url |-> job.repository.clone_url,
                     full_name |-> job.repository.full_name,
                     owner     |-> job.repository.owner.login,
                     name      |-> job.repository.name]
    IN  IF job.action = "Deleted" THEN <<Ack>>
        ELSE IF instructions = <<>> THEN <<Ack>>
        ELSE IF build_destinations = <<>> THEN <<Ack>>
        ELSE IF ~pr.ok THEN <<Ack>>
        ELSE CommentInstructions(
                instructions[1], build_destinations, repo_msg,
                [number        |-> job.issue.number,
                 head_sha      |-> pr.head_sha,
                 target_branch |-> <<pr.base_ref>>],
                ids)
             \o <<Ack>>

-----------------------------------------------------------------------------
(* The deliveries of the model.                                            *)

RepositoryMembers(owner, name) ==
    <<M("repository.owner.login", owner), M("repository.name", name),
      M("repository.full_name", owner \o "/" \o name),
      M("repository.clone_url", "https://github.com/" \o owner \o "/" \o name \o ".git")>>

ChangesMembers(kind) ==
    CASE kind = "absent" -> <<>>
      [] kind = "null"   -> <<Nul("changes")>>
      [] kind = "title"  -> <<O("changes"), M("changes.title.from", "old title")>>
      [] kind = "base"   -> <<O("changes"), O("changes.base"),
                              M("changes.base.ref.from", "master"),
                              M("changes.base.sha.from", "0a1b2c")>>

PullRequestMembers(state) ==
    <<M("pull_request.state", state),
      M("pull_request.base.ref", "staging"), M("pull_request.base.sha", "0a1b2c"),
      M("pull_request.head.ref", "fix"), M("pull_request.head.sha", "887e8b")>>

PrEventBody(action, state, owner, name, changes) ==
    <<M("action", action), N("number", "33299")>>
    \o PullRequestMembers(state) \o RepositoryMembers(owner, name)
    \o ChangesMembers(changes)

Repos == {<<"NixOS", "nixpkgs">>, <<"Acme", "Tools">>}

FilterBodies ==
    {PrEventBody(a, st, r[1], r[2], c) :
        a \in {"opened", "synchronize", "reopened", "edited", "closed",
               "converted_to_draft"},
        st \in {"open", "closed"}, r \in Repos,
        c \in {"absent", "null", "title", "base"}}
    \cup {<<Garbage>>,
          \* the number is missing
          <<M("action", "opened")>> \o PullRequestMembers("open")
            \o RepositoryMembers("NixOS", "nixpkgs"),
          \* a state that is no variant of PullRequestState
          PrEventBody("opened", "merged", "NixOS", "nixpkgs", "absent"),
          \* a changed base without its sha
          PrEventBody("edited", "open", "NixOS", "nixpkgs", "absent")
            \o <<O("changes"), O("changes.base"),
                 M("changes.base.ref.from", "master")>>}

IssueCommentBody(action, body, login, owner, name) ==
    <<M("action", action), M("comment.body", body),
      M("comment.user.login", login), N("issue.number", "33299")>>
    \o RepositoryMembers(owner, name)

CommentBodies ==
    {IssueCommentBody(a, b, u, r[1], r[2]) :
        a \in {"created", "deleted"},
        b \in {"nice work", "@ofborg eval", "@ofborg build hello",
               "@ofborg test nginx", "@ofborg build hello @ofborg eval",
               "@ofborg test nginx @ofborg build hello"},
        u \in {"Alice", "bob"}, r \in Repos}
    \cup {<<Garbage>>,
          \* an action that is no variant of IssueCommentAction
          IssueCommentBody("pinned", "nice work", "bob", "NixOS", "nixpkgs"),
          \* the comment has no user
          <<M("action", "created"), M("comment.body", "@ofborg eval"),
            N("issue.number", "33299")>> \o RepositoryMembers("NixOS", "nixpkgs")}

StatsBodies ==
    {<<M("sender", "builder-1"), O("events"),
       M("events.0", "JobReceived"), M("events.1", "JobDecodeSuccess")>>,
     <<M("sender", "builder-2"), O("events")>>,
     <<Bytes("IssueFetchFailed")>>,
     <<Bytes("no such event")>>,
     <<O("events"), M("events.0", "JobReceived")>>}

\* what pulls().get() may return for the commented pull request
PullsGet == {[ok |-> FALSE, head_sha |-> "", base_ref |-> ""],
             [ok |-> TRUE, head_sha |-> "887e8b", base_ref |-> "staging"],
             [ok |-> TRUE, head_sha |-> "887e8b", base_ref |-> "nixos-23.05"]}

\* the values Uuid::new_v4 returns for the build instructions of one comment
RequestIds == {<<"uuid-1", "uuid-2">>, <<"uuid-2", "uuid-1">>}

-----------------------------------------------------------------------------
(* The consumer loop: one delivery is decoded, consumed, and the actions   *)
(* the consumer returned are carried out in order.                         *)

\* EvaluationWorker::msg_to_job, with the events it notifies
EvaluationDecode(raw) ==
    LET job == ParseEvaluationJob(raw)
    IN  IF job = DecodeError
        THEN [how |-> "err", job |-> <<>>,
              notify |-> <<"JobReceived", "JobDecodeFailure">>]
        ELSE [how |-> "ok", job |-> <<job>>,
              notify |-> <<"JobReceived", "JobDecodeSuccess">>]

EvaluationJobs ==
    {[repo |-> [owner |-> r[1], name |-> r[2],
                full_name |-> r[1] \o "/" \o r[2],
                clone_url |-> "https://github.com/" \o r[1] \o "/" \o r[2] \o ".git"],
      pr   |-> [number |-> "33299", head_sha |-> "887e8b", target_branch |-> b]] :
        r \in Repos,
        b \in {<<>>, <<"staging">>, <<"nixos-23.05">>, <<"nixpkgs-unstable">>}}

EvaluatorBodies ==
    {SerializeEvaluationJob(j) : j \in EvaluationJobs}
    \cup {<<Garbage>>,
          \* the pull request has no head_sha
          <<M("repo.owner", "NixOS"), M("repo.name", "nixpkgs"),
            M("repo.full_name", "NixOS/nixpkgs"),
            M("repo.clone_url", "https://github.com/NixOS/nixpkgs.git"),
            N("pr.number", "33299")>>}

Workers == {"evaluation-filter", "github-comment-filter", "stats",
            "mass-rebuilder"}

\* what the queue of each worker may hold
Bodies(worker) ==
    CASE worker = "evaluation-filter"     -> FilterBodies
      [] worker = "github-comment-filter" -> CommentBodies
      [] worker = "stats"                 -> StatsBodies
      [] worker = "mass-rebuilder"        -> EvaluatorBodies

\* SimpleWorker::msg_to_job of each worker
MsgToJob(worker, body) ==
    CASE worker = "evaluation-filter"     -> EvaluationFilterDecode(body)
      [] worker = "github-comment-filter" -> CommentDecode(body)
      [] worker = "stats"                 -> StatsDecode(body)
      [] worker = "mass-rebuilder"        -> EvaluationDecode(body)

Settled(action, by) == [action |-> action, by |-> by]

Notified(d) == IF "notify" \in DOMAIN d THEN d.notify ELSE <<>>

\* the evaluator before evaluate_job has begun
NoEval == [pc |-> "none"]

\* the forge before the evaluator has looked at it
NoGithub == [seen |-> FALSE]

\* the broker hands the next message of a worker's queue to its consumer
Deliver ==
    /\ wPhase = "idle"
    /\ wCount < MaxDeliveries
    /\ \E worker \in Workers : \E body \in Bodies(worker) :
          /\ wWorker' = worker
          /\ wBody' = body
    /\ wPhase' = "delivered"
    /\ wCount' = wCount + 1
    /\ UNCHANGED <<wDecoded, wJob, wActions, wCursor, wOutbox, wSettled,
                   wNotified, recorded, oneEval, github>>

\* the loop calls msg_to_job; an Err becomes a NackDump of the delivery, a
\* panic ends the process with the delivery unsettled
Decode ==
    /\ wPhase = "delivered"
    /\ LET d == MsgToJob(wWorker, wBody)
       IN  /\ wDecoded' = d.how
           /\ wJob' = d.job
           /\ wNotified' = wNotified \o Notified(d)
           /\ wPhase' = CASE d.how = "ok"    -> "decoded"
                          [] d.how = "err"   -> "settled"
                          [] d.how = "panic" -> "panicked"
           /\ wSettled' = IF d.how = "err"
                          THEN Append(wSettled, Settled(NackDump, "loop"))
                          ELSE wSettled
    /\ UNCHANGED <<wWorker, wBody, wActions, wCursor, wOutbox, recorded,
                   oneEval, github, wCount>>

\* the loop calls consumer and gets the Actions to carry out
Consumed(actions) ==
    /\ wActions' = actions
    /\ wCursor' = 0
    /\ wPhase' = "dispatching"

ConsumeEvaluationFilter ==
    /\ wPhase = "decoded"
    /\ wWorker = "evaluation-filter"
    /\ Consumed(EvaluationFilterConsumer(wJob[1]))
    /\ UNCHANGED <<wWorker, wBody, wDecoded, wJob, wOutbox, wSettled,
                   wNotified, recorded, oneEval, github, wCount>>

\* the forge as the comment filter asked it for the pull request
AskedForPull(pr) == [seen |-> FALSE, pull |-> pr]

ConsumeComment ==
    /\ wPhase = "decoded"
    /\ wWorker = "github-comment-filter"
    /\ \E pr \in PullsGet, ids \in RequestIds :
          /\ Consumed(CommentConsumer(wJob[1], pr, ids))
          /\ github' = IF AsksForPull(wJob[1]) THEN AskedForPull(pr) ELSE github
    /\ UNCHANGED <<wWorker, wBody, wDecoded, wJob, wOutbox, wSettled,
                   wNotified, recorded, oneEval, wCount>>

ConsumeStats ==
    /\ wPhase = "decoded"
    /\ wWorker = "stats"
    /\ recorded' = recorded \o StatsRecorded(wJob[1])
    /\ Consumed(StatsConsumer(wJob[1]))
    /\ UNCHANGED <<wWorker, wBody, wDecoded, wJob, wOutbox, wSettled,
                   wNotified, oneEval, github, wCount>>

\* the loop sends the next action of the list to the broker: a publish the
\* broker may refuse, which turns the delivery into a NackRequeue
Dispatch ==
    /\ wPhase = "dispatching"
    /\ wCursor < Len(wActions)
    /\ LET a == wActions[wCursor + 1]
       IN  IF IsPublish(a)
           THEN \E accepted \in BOOLEAN :
                  IF accepted
                  THEN /\ wOutbox' = Append(wOutbox, a.msg)
                       /\ wCursor' = wCursor + 1
                       /\ UNCHANGED <<wSettled, wPhase>>
                  ELSE /\ wSettled' = Append(wSettled, Settled(NackRequeue, "loop"))
                       /\ wPhase' = "settled"
                       /\ UNCHANGED <<wOutbox, wCursor>>
           ELSE /\ wSettled' = Append(wSettled, Settled(a, "consumer"))
                /\ wCursor' = wCursor + 1
                /\ UNCHANGED <<wOutbox, wPhase>>
    /\ UNCHANGED <<wWorker, wBody, wDecoded, wJob, wActions, wNotified,
                   recorded, oneEval, github, wCount>>

\* the loop is through with the delivery and waits for the next one
IdleDelivery ==
    /\ wPhase' = "idle"
    /\ wWorker' = ""
    /\ wBody' = <<>>
    /\ wDecoded' = "none"
    /\ wJob' = <<>>
    /\ wActions' = <<>>
    /\ wCursor' = 0
    /\ wOutbox' = <<>>
    /\ wSettled' = <<>>
    /\ wNotified' = <<>>
    /\ recorded' = <<>>
    /\ oneEval' = NoEval
    /\ github' = NoGithub

Finish ==
    /\ \/ wPhase = "dispatching" /\ wCursor = Len(wActions)
       \/ wPhase = "settled"
    /\ IdleDelivery
    /\ UNCHANGED wCount

\* the process that panicked is started again
Restart ==
    /\ wPhase = "panicked"
    /\ IdleDelivery
    /\ UNCHANGED wCount

InitWorkers ==
    /\ wPhase = "idle"
    /\ wWorker = ""
    /\ wBody = <<>>
    /\ wDecoded = "none"
    /\ wJob = <<>>
    /\ wActions = <<>>
    /\ wCursor = 0
    /\ wOutbox = <<>>
    /\ wSettled = <<>>
    /\ wNotified = <<>>
    /\ recorded = <<>>
    /\ oneEval = NoEval
    /\ github = NoGithub
    /\ wCount = 0

-----------------------------------------------------------------------------
(* The evaluator: the forge it talks to.                                   *)

\* str::contains
Contains(s, sub) ==
    \E i \in 1..(Len(s) + 1) :
        i + Len(sub) - 1 <= Len(s) /\ SubSeq(s, i, i + Len(sub) - 1) = sub

\* the characters the regex class \w matches
WordChars == "abcdefghijklmnopqrstuvwxyzABCDEFGHIJKLMNOPQRSTUVWXYZ0123456789_"

IsWordChar(c) == IndexOf(WordChars, c) > 0

\* the word anywhere in the title
WordMatchAnywhere(word, title) == Contains(title, word)

\* Regex::new("\\b{word}\\b").is_match(title), word made of word characters
WordMatch(word, title) ==
    \E i \in 1..(Len(title) + 1) :
        /\ i + Len(word) - 1 <= Len(title)
        /\ SubSeq(title, i, i + Len(word) - 1) = word
        /\ i = 1 \/ ~IsWordChar(CharAt(title, i - 1))
        /\ i + Len(word) > Len(title) \/ ~IsWordChar(CharAt(title, i + Len(word)))

TITLE_LABELS ==
    <<<<"bsd", "6.topic: bsd">>, <<"darwin", "6.topic: darwin">>,
      <<"macos", "6.topic: darwin">>, <<"cross", "6.topic: cross-compilation">>>>

\* the labels of the pairs from position i on whose word matches, in order
RECURSIVE LabelsFrom(_, _)
LabelsFrom(title, i) ==
    IF i > Len(TITLE_LABELS) THEN <<>>
    ELSE (IF WordMatch(TITLE_LABELS[i][1], title)
          THEN <<TITLE_LABELS[i][2]>> ELSE <<>>)
         \o LabelsFrom(title, i + 1)

label_from_title(title) == LabelsFrom(title, 1)

SeqContains(seq, x) == \E i \in 1..Len(seq) : seq[i] = x

\* the labels asked for, whatever the issue has
FilterByNothing(seq, existing, keep) == seq

\* the elements of seq that are (keep) or are not (~keep) in existing
RECURSIVE FilterBy(_, _, _)
FilterBy(seq, existing, keep) ==
    IF seq = <<>> THEN <<>>
    ELSE (IF SeqContains(existing, Head(seq)) = keep THEN <<Head(seq)>> ELSE <<>>)
         \o FilterBy(Tail(seq), existing, keep)

RECURSIVE Without(_, _)
Without(seq, x) ==
    IF seq = <<>> THEN <<>>
    ELSE (IF Head(seq) = x THEN <<>> ELSE <<Head(seq)>>) \o Without(Tail(seq), x)

\* the single removes of update_labels, as far as they go: failed is 0 when
\* none fails, else the position of the remove that fails
RECURSIVE RemoveEach(_, _, _, _)
RemoveEach(gh, to_remove, i, failed) ==
    IF i > Len(to_remove) THEN gh
    ELSE LET call == [op |-> "remove", labels |-> <<to_remove[i]>>,
                      ok |-> failed # i]
         IN  IF failed = i
             THEN [gh EXCEPT !.label_calls = Append(@, call), !.panicked = TRUE]
             ELSE RemoveEach([gh EXCEPT !.label_calls = Append(@, call),
                                        !.labels = Without(@, to_remove[i])],
                             to_remove, i + 1, failed)

\* how an update_labels call may go: every request answered, the issue
\* fetch failing, the bulk add failing, the first remove failing
LabelOutcomes == {"ok", "get fails", "add fails", "remove fails"}

\* update_labels asking for the additions only
update_labels_adding(gh, add, remove, outcome) ==
    LET existing == gh.labels
        to_add   == FilterBy(add, existing, FALSE)
        got      == [gh EXCEPT !.label_calls =
                       Append(@, [op |-> "get",
                                  labels |-> IF outcome = "get fails" THEN <<>>
                                             ELSE existing,
                                  asked |-> [add |-> add, remove |-> remove],
                                  ok |-> outcome # "get fails"])]
    IN  IF outcome = "get fails" THEN [got EXCEPT !.panicked = TRUE]
        ELSE [got EXCEPT !.label_calls =
                            Append(@, [op |-> "add", labels |-> to_add,
                                       ok |-> outcome # "add fails"]),
                         !.labels = IF outcome = "add fails" THEN @
                                    ELSE @ \o to_add,
                         !.panicked = outcome = "add fails"]

\* update_labels: the forge after it, panicked set where the call panics;
\* the requests are kept in label_calls, the fetch with what was fetched and
\* with the arguments of the call
update_labels(gh, add, remove, outcome) ==
    LET existing  == gh.labels
        to_add    == FilterBy(add, existing, FALSE)
        to_remove == FilterBy(remove, existing, TRUE)
        got       == [gh EXCEPT !.label_calls =
                        Append(@, [op |-> "get",
                                   labels |-> IF outcome = "get fails" THEN <<>>
                                              ELSE existing,
                                   asked |-> [add |-> add, remove |-> remove],
                                   ok |-> outcome # "get fails"])]
        added     == [got EXCEPT !.label_calls =
                        Append(@, [op |-> "add", labels |-> to_add,
                                   ok |-> outcome # "add fails"]),
                                 !.labels = IF outcome = "add fails" THEN @
                                            ELSE @ \o to_add]
    IN  IF outcome = "get fails" THEN [got EXCEPT !.panicked = TRUE]
        ELSE IF outcome = "add fails" THEN [added EXCEPT !.panicked = TRUE]
        ELSE RemoveEach(added, to_remove, 1,
                        IF outcome = "remove fails" THEN 1 ELSE 0)

\* indicates_wip
indicates_wip(text) ==
    \/ Contains(ToLowercase(text), "work in progress")
    \/ Contains(ToLowercase(text), "work-in-progress")

\* issue_is_wip looking at the title only
issue_is_wip_by_title(issue) ==
    \/ Contains(issue.title, "[WIP]")
    \/ StartsWith(issue.title, "WIP:")

\* issue_is_wip
issue_is_wip(issue) ==
    \/ Contains(issue.title, "[WIP]")
    \/ StartsWith(issue.title, "WIP:")
    \/ \E i \in 1..Len(issue.labels) : indicates_wip(issue.labels[i])

\* the ways a request to the forge fails, as CommitStatusError sorts them
CommitStatusErrors == {"ExpiredCreds", "InternalError", "MissingSha", "Error"}

\* get_prefix taking any status of the commit for an old one
get_prefix_of_any(gh) ==
    IF gh.legacy \/ gh.statuses # <<>> THEN "grahamcofborg" ELSE "ofborg"

\* get_prefix once statuses.list(sha) has answered: the statuses of the
\* commit are those others wrote (legacy: one of them has the old prefix)
\* and those the evaluator wrote
get_prefix(gh) ==
    IF \/ gh.legacy
       \/ \E i \in 1..Len(gh.statuses) :
             StartsWith(gh.statuses[i].context, "grahamcofborg-")
    THEN "grahamcofborg" ELSE "ofborg"

\* the description a status is written with
Truncate(description) ==
    IF Len(description) >= 140 THEN SubSeq(description, 1, 140) ELSE description

\* statuses.create(sha, options): the forge after it
CreateStatus(gh, context, description, state, url) ==
    [gh EXCEPT !.statuses =
        Append(@, [context |-> context, description |-> Truncate(description),
                   state |-> state, url |-> url])]

-----------------------------------------------------------------------------
(* The evaluator: touched packages and the builds scheduled for them.      *)

\* str::trim, the white space of the model being the blank
RECURSIVE TrimStart(_)
TrimStart(s) ==
    IF Len(s) > 0 /\ CharAt(s, 1) = " " THEN TrimStart(SubSeq(s, 2, Len(s))) ELSE s

RECURSIVE TrimEnd(_)
TrimEnd(s) ==
    IF Len(s) > 0 /\ CharAt(s, Len(s)) = " "
    THEN TrimEnd(SubSeq(s, 1, Len(s) - 1)) ELSE s

Trim(s) == TrimStart(TrimEnd(s))

\* brace_expand of "{" + line + "}" for a line without braces of its own:
\* the alternatives between the commas
brace_expand(line) == Split(line, ",")

RECURSIVE TrimAll(_)
TrimAll(seq) ==
    IF seq = <<>> THEN <<>> ELSE <<Trim(Head(seq))>> \o TrimAll(Tail(seq))

\* parse_commit_messages: the text before the first colon of each line that
\* has one, trimmed, expanded, each alternative trimmed
RECURSIVE parse_commit_messages(_)
parse_commit_messages(messages) ==
    IF messages = <<>> THEN <<>>
    ELSE (IF IndexOf(Head(messages), ":") = 0 THEN <<>>
          ELSE TrimAll(brace_expand(Trim(SplitN2(Head(messages), ":")[1]))))
         \o parse_commit_messages(Tail(messages))

\* the characters of package names, in the order of their code points
CodePoints == " +,-.0123456789ABCDEFGHIJKLMNOPQRSTUVWXYZ_abcdefghijklmnopqrstuvwxyz"

\* a < b as String orders them
RECURSIVE StrLess(_, _)
StrLess(a, b) ==
    IF Len(b) = 0 THEN FALSE
    ELSE IF Len(a) = 0 THEN TRUE
    ELSE IF CharAt(a, 1) = CharAt(b, 1)
    THEN StrLess(SubSeq(a, 2, Len(a)), SubSeq(b, 2, Len(b)))
    ELSE IndexOf(CodePoints, CharAt(a, 1)) < IndexOf(CodePoints, CharAt(b, 1))

\* x put at its place in the sorted seq
RECURSIVE InsertSorted(_, _)
InsertSorted(seq, x) ==
    IF seq = <<>> THEN <<x>>
    ELSE IF StrLess(x, Head(seq)) THEN <<x>> \o seq
    ELSE <<Head(seq)>> \o InsertSorted(Tail(seq), x)

\* Vec::sort
RECURSIVE Sort(_)
Sort(seq) == IF seq = <<>> THEN <<>> ELSE InsertSorted(Sort(Tail(seq)), Head(seq))

\* Vec::dedup: consecutive repeats removed
RECURSIVE Dedup(_)
Dedup(seq) ==
    IF Len(seq) < 2 THEN seq
    ELSE IF seq[1] = seq[2] THEN Dedup(Tail(seq))
    ELSE <<seq[1]>> \o Dedup(Tail(seq))

\* flat_map(|pkg| [pkg, pkg + ".passthru.tests"])
RECURSIVE WithTests(_)
WithTests(pkgs) ==
    IF pkgs = <<>> THEN <<>>
    ELSE <<Head(pkgs), Head(pkgs) \o ".passthru.tests">> \o WithTests(Tail(pkgs))

\* NixpkgsStrategy::queue_builds; touched_packages an Option, request_id the
\* value Uuid::new_v4 returns
queue_builds(job, touched_packages, request_id) ==
    IF touched_packages = <<>> THEN <<>>
    ELSE LET try_build == Dedup(Sort(WithTests(touched_packages[1])))
         IN  IF try_build # <<>> /\ Len(try_build) <= 20
             THEN <<BuildJob(job.repo, job.pr, "Nixpkgs", try_build, request_id)>>
             ELSE <<>>

\* schedule_builds without the QueuedBuildJobs record
RECURSIVE schedule_builds_unrecorded(_, _)
schedule_builds_unrecorded(builds, auto_schedule_build_archs) ==
    IF builds = <<>> THEN <<>>
    ELSE PublishToEach(auto_schedule_build_archs, SerializeBuildJob(Head(builds)))
         \o schedule_builds_unrecorded(Tail(builds), auto_schedule_build_archs)

\* schedule_builds
RECURSIVE schedule_builds(_, _)
schedule_builds(builds, auto_schedule_build_archs) ==
    IF builds = <<>> THEN <<>>
    ELSE PublishToEach(auto_schedule_build_archs, SerializeBuildJob(Head(builds)))
         \o <<publish_serde_action("build-results", None,
                SerializeQueuedBuildJobs(Head(builds), auto_schedule_build_archs))>>
         \o schedule_builds(Tail(builds), auto_schedule_build_archs)

\* evaluationjob::Actions
skip(job) == <<Ack>>
retry_later(job) == <<NackRequeue>>
done(job, response) == response \o <<Ack>>

\* EvaluationJob::is_nixpkgs
is_nixpkgs(job) == job.repo.name = "nixpkgs"

-----------------------------------------------------------------------------
(* The evaluator: OneEval::evaluate_job, one step for each request it      *)
(* makes of the forge, the working copy or its strategy.                   *)

Issue(state, title, labels, login) ==
    [state |-> state, title |-> title, labels |-> labels,
     user |-> [login |-> login]]

\* what issue_ref.get() may answer: an error, or the issue
IssueGet ==
    {<<>>,
     <<Issue("closed", "hello: 1.0 -> 1.1", <<>>, "alice")>>,
     <<Issue("open", "hello: 1.0 -> 1.1", <<>>, "alice")>>,
     <<Issue("open", "hello: 1.0 -> 1.1", <<>>, "bob")>>,
     <<Issue("open", "[WIP] hello: 1.0 -> 1.1", <<>>, "alice")>>,
     <<Issue("open", "WIP: fix build on Darwin", <<>>, "bob")>>,
     <<Issue("open", "hello: fix build on bsd",
             <<"2.status: Work-In-Progress">>, "alice")>>,
     <<Issue("open", "hello: fix cross",
             <<"2.status: merge conflict", "6.topic: cross-compilation">>,
             "Alice")>>}

\* what commit_messages_from_head may answer: an error, or the messages
CommitMessages ==
    {<<>>,
     <<<<"hello: 1.0 -> 1.1">>>>,
     <<<<"nginx, hello : fix build", "Merge pull request #1 from a/b",
         "hello: add test">>>>,
     <<<<"Merge pull request #1 from a/b">>>>,
     <<<<"a,b,c,d,e,f,g,h,i,j: treewide">>>>,
     <<<<"a,b,c,d,e,f,g,h,i,j,k: treewide">>>>,
     <<<<"a,b,c,d,e,f,g,h,i,j,k: treewide", "l,m,n,o,p,q,r,s,t: treewide",
         "a: fix">>>>,
     <<<<"a,b,c,d,e,f,g,h,i,j,k: treewide", "l,m,n,o,p,q,r,s,t,u: treewide">>>>}

\* the checks a strategy other than NixpkgsStrategy may return
EvaluationChecks == {<<>>, <<"nixos">>, <<"nixos", "meta">>}

\* how one check may go: both statuses written and the check passing or
\* failing, or one of the two writes failing
CheckOutcomes == {"Success", "Failure", "pending fails", "final fails"}

\* eval::Error as a step of a strategy may return it
Fail(msg) == [kind |-> "Fail", msg |-> msg, filename |-> "", content |-> ""]
FailWithGist(msg, filename, content) ==
    [kind |-> "FailWithGist", msg |-> msg, filename |-> filename,
     content |-> content]
CommitStatusWrite(e) ==
    [kind |-> "CommitStatusWrite", msg |-> e, filename |-> "", content |-> ""]

\* StepResult<()> of a strategy whose code is not NixpkgsStrategy's: Ok, or
\* one of the failures a step reports
StepResults ==
    {<<>>, <<Fail("evaluation failed")>>,
     <<FailWithGist("evaluation failed", "output", "error: ...")>>}

\* StatusSteps with the descriptions of the fetch and the merge exchanged
StatusStepsMergingFirst(target_branch) ==
    [starting           |-> <<"Starting", "Pending", "pre_clone">>,
     cloning            |-> <<"Cloning project", "Pending", "clone_for">>,
     mirror             |-> <<"The branch you have targeted is a read-only mirror for channels. Please target release-* or master.",
                              "Error", "skip">>,
     checking_out       |-> <<"Checking out " \o target_branch, "Pending",
                              "checkout_origin_ref">>,
     original_out_paths |-> <<"Checking original out paths", "Pending",
                              "fetching">>,
     fetching           |-> <<"Merging PR", "Pending", "fetch_pr">>,
     commit_not_found   |-> <<"Commit not found", "Error", "skip">>,
     merging            |-> <<"Fetching PR", "Pending", "merge_commit">>,
     failed_to_merge    |-> <<"Failed to merge", "Failure", "merge_conflict">>,
     new_out_paths      |-> <<"Checking new out paths", "Pending", "beginning">>,
     beginning          |-> <<"Beginning Evaluations", "Pending",
                              "evaluation_checks">>,
     changed_outputs    |-> <<"Calculating Changed Outputs", "Pending",
                              "queue_builds">>,
     success            |-> <<"^.^!", "Success", "done">>,
     with_errors        |-> <<"Complete, with errors", "Failure", "done">>]

\* the status writes of evaluate_job and of the strategy: where the job is,
\* what is written, where it goes on
StatusSteps(target_branch) ==
    [starting           |-> <<"Starting", "Pending", "pre_clone">>,
     cloning            |-> <<"Cloning project", "Pending", "clone_for">>,
     mirror             |-> <<"The branch you have targeted is a read-only mirror for channels. Please target release-* or master.",
                              "Error", "skip">>,
     checking_out       |-> <<"Checking out " \o target_branch, "Pending",
                              "checkout_origin_ref">>,
     original_out_paths |-> <<"Checking original out paths", "Pending",
                              "fetching">>,
     fetching           |-> <<"Fetching PR", "Pending", "fetch_pr">>,
     commit_not_found   |-> <<"Commit not found", "Error", "skip">>,
     merging            |-> <<"Merging PR", "Pending", "merge_commit">>,
     failed_to_merge    |-> <<"Failed to merge", "Failure", "merge_conflict">>,
     new_out_paths      |-> <<"Checking new out paths", "Pending", "beginning">>,
     beginning          |-> <<"Beginning Evaluations", "Pending",
                              "evaluation_checks">>,
     changed_outputs    |-> <<"Calculating Changed Outputs", "Pending",
                              "queue_builds">>,
     success            |-> <<"^.^!", "Success", "done">>,
     with_errors        |-> <<"Complete, with errors", "Failure", "done">>]

\* lines 338-341
TargetBranch(job) ==
    IF job.pr.target_branch = <<>> THEN "master" ELSE job.pr.target_branch[1]

\* the variables a step of the evaluation leaves alone
EvalUnchanged ==
    UNCHANGED <<wWorker, wBody, wDecoded, wJob, wCursor, wOutbox, wSettled,
                recorded, wCount>>

\* the evaluation goes on at pc
Goto(pc) ==
    /\ oneEval' = [oneEval EXCEPT !.pc = pc]
    /\ UNCHANGED <<wPhase, wActions>>

\* evaluate_job returns Err(e)
Failed(e) ==
    /\ oneEval' = [oneEval EXCEPT !.pc = "failed", !.error = <<e>>]
    /\ UNCHANGED <<wPhase, wActions>>

\* a panic unwinds out of consumer
Panicked ==
    /\ wPhase' = "panicked"
    /\ UNCHANGED <<oneEval, wActions>>

\* EvaluationWorker::consumer up to worker_actions: the vending machine
\* hands out a client for the repository, or the expect panics
BeginEvaluation ==
    /\ wPhase = "decoded"
    /\ wWorker = "mass-rebuilder"
    /\ \E client \in BOOLEAN :
          IF client
          THEN /\ wPhase' = "evaluating"
               /\ oneEval' = [pc       |-> "issue",
                              strategy |-> IF is_nixpkgs(wJob[1]) THEN "nixpkgs"
                                           ELSE "generic",
                              title    |-> "",
                              archs    |-> <<>>,
                              prefix   |-> "",
                              touched  |-> <<>>,
                              response |-> <<>>,
                              error    |-> <<>>,
                              result   |-> "",
                              issue    |-> <<>>,
                              merged   |-> "none",
                              checks   |-> <<>>]
          ELSE /\ wPhase' = "panicked"
               /\ UNCHANGED oneEval
    /\ UNCHANGED <<wActions, wNotified, github>>
    /\ EvalUnchanged

\* lines 268-294: the issue is fetched
FetchIssue ==
    /\ wPhase = "evaluating"
    /\ oneEval.pc = "issue"
    /\ \E got \in IssueGet, legacy \in BOOLEAN :
          IF got = <<>>
          THEN /\ wNotified' = Append(wNotified, "IssueFetchFailed")
               /\ oneEval' = [oneEval EXCEPT !.pc = "skip"]
               /\ UNCHANGED github
          ELSE IF got[1].state = "closed"
          THEN /\ wNotified' = Append(wNotified, "IssueAlreadyClosed")
               /\ oneEval' = [oneEval EXCEPT !.pc = "skip"]
               /\ UNCHANGED github
          ELSE /\ oneEval' =
                    [oneEval EXCEPT
                        !.pc = "prefix",
                        !.title = got[1].title,
                        !.issue = got,
                        !.archs =
                            IF issue_is_wip(got[1]) THEN <<>>
                            ELSE build_job_architectures_for_user_repo(
                                    got[1].user.login, wJob[1].repo.full_name)]
               /\ github' = [seen        |-> TRUE,
                             legacy      |-> legacy,
                             labels      |-> got[1].labels,
                             statuses    |-> <<>>,
                             label_calls |-> <<>>,
                             gists       |-> <<>>,
                             panicked    |-> FALSE]
               /\ UNCHANGED wNotified
    /\ UNCHANGED <<wPhase, wActions>>
    /\ EvalUnchanged

\* how a request that reads or writes statuses may end
StatusOutcomes == {"Ok"} \cup CommitStatusErrors

\* line 310: the prefix of the job's status contexts
GetPrefix ==
    /\ wPhase = "evaluating"
    /\ oneEval.pc = "prefix"
    /\ \E listed \in StatusOutcomes :
          IF listed = "Ok"
          THEN /\ oneEval' = [oneEval EXCEPT !.pc = "starting",
                                             !.prefix = get_prefix(github)]
               /\ UNCHANGED <<wPhase, wActions>>
          ELSE Failed(CommitStatusWrite(listed))
    /\ UNCHANGED <<wNotified, github>>
    /\ EvalUnchanged

\* overall_status.set_with_description(..)?, wherever evaluate_job or the
\* NixpkgsStrategy does it
SetStatus ==
    /\ wPhase = "evaluating"
    /\ oneEval.pc \in DOMAIN StatusSteps("")
    /\ LET step == StatusSteps(TargetBranch(wJob[1]))[oneEval.pc]
       IN  \E created \in StatusOutcomes :
              IF created = "Ok"
              THEN /\ github' = CreateStatus(github, oneEval.prefix \o "-eval",
                                             step[1], step[2], None)
                   /\ Goto(step[3])
              ELSE /\ Failed(CommitStatusWrite(created))
                   /\ UNCHANGED github
    \* lines 367-372 precede the write of Fetching PR
    /\ wNotified' = IF oneEval.pc = "fetching"
                    THEN wNotified \o <<"EvaluationDuration",
                                        "EvaluationDurationCount">>
                    ELSE wNotified
    /\ EvalUnchanged

IsMirror(target_branch) ==
    StartsWith(target_branch, "nixos-") \/ StartsWith(target_branch, "nixpkgs-")

\* clone_for, checkout_origin_ref, fetch_pr with commit_exists, merge_commit
WorkingCopy ==
    /\ wPhase = "evaluating"
    /\ oneEval.pc \in {"clone_for", "checkout_origin_ref", "fetch_pr",
                       "merge_commit"}
    /\ \E ok \in BOOLEAN, commit_exists \in BOOLEAN :
          CASE oneEval.pc = "clone_for" ->
                 IF ~ok THEN Failed(CommitStatusWrite("InternalError"))
                 ELSE IF IsMirror(TargetBranch(wJob[1])) THEN Goto("mirror")
                 ELSE Goto("checking_out")
            [] oneEval.pc = "checkout_origin_ref" ->
                 IF ~ok THEN Failed(CommitStatusWrite("InternalError"))
                 ELSE IF oneEval.strategy = "nixpkgs"
                 THEN Goto("original_out_paths")
                 ELSE Goto("on_target_branch")
            [] oneEval.pc = "fetch_pr" ->
                 IF ~ok THEN Failed(CommitStatusWrite("InternalError"))
                 ELSE IF ~commit_exists THEN Goto("commit_not_found")
                 ELSE Goto("after_fetch")
            [] oneEval.pc = "merge_commit" ->
                 /\ oneEval' =
                       [oneEval EXCEPT
                          !.pc = IF ok THEN "after_merge" ELSE "failed_to_merge",
                          !.merged = IF ok THEN "ok" ELSE "conflict"]
                 /\ UNCHANGED <<wPhase, wActions>>
    /\ UNCHANGED <<wNotified, github>>
    /\ EvalUnchanged

\* the forge after a call of update_labels, and the job with it
Labelled(gh, pc) ==
    /\ github' = gh
    /\ IF gh.panicked THEN Panicked ELSE Goto(pc)

\* the steps of NixpkgsStrategy that write no status
NixpkgsStep ==
    /\ wPhase = "evaluating"
    /\ oneEval.strategy = "nixpkgs"
    /\ oneEval.pc \in {"pre_clone", "after_fetch", "merge_conflict",
                       "after_merge", "evaluation_checks", "queue_builds"}
    /\ \E got \in IF oneEval.pc = "pre_clone" THEN BOOLEAN ELSE {TRUE},
          outcome \in IF oneEval.pc \in {"pre_clone", "merge_conflict", "after_merge"}
                      THEN LabelOutcomes ELSE {"ok"},
          messages \in IF oneEval.pc = "after_fetch" THEN CommitMessages
                       ELSE {<<>>},
          request_id \in IF oneEval.pc = "queue_builds" THEN {"uuid-1", "uuid-2"}
                         ELSE {"uuid-1"} :
          CASE oneEval.pc = "pre_clone" ->
                 \* tag_from_title
                 LET labels == label_from_title(ToLowercase(oneEval.title))
                 IN  IF ~got \/ labels = <<>> THEN Labelled(github, "cloning")
                     ELSE Labelled(update_labels(github, labels, <<>>, outcome),
                                   "cloning")
            [] oneEval.pc = "after_fetch" ->
                 /\ oneEval' =
                       [oneEval EXCEPT
                          !.pc = "merging",
                          !.touched = <<parse_commit_messages(
                                          IF messages = <<>> THEN <<"">>
                                          ELSE messages[1])>>]
                 /\ UNCHANGED <<github, wPhase, wActions>>
            [] oneEval.pc = "merge_conflict" ->
                 Labelled(update_labels(github, <<"2.status: merge conflict">>,
                                        <<>>, outcome), "skip")
            [] oneEval.pc = "after_merge" ->
                 Labelled(update_labels(github, <<>>,
                                        <<"2.status: merge conflict">>, outcome),
                          "new_out_paths")
            [] oneEval.pc = "evaluation_checks" ->
                 \* no checks: eval_results is true
                 Goto("changed_outputs") /\ UNCHANGED github
            [] oneEval.pc = "queue_builds" ->
                 /\ oneEval' =
                       [oneEval EXCEPT
                          !.pc = "success",
                          !.response =
                              schedule_builds(
                                  queue_builds(wJob[1], oneEval.touched, request_id),
                                  oneEval.archs)]
                 /\ UNCHANGED <<github, wPhase, wActions>>
    /\ UNCHANGED wNotified
    /\ EvalUnchanged

\* where a step of the other strategy goes on when it returns Ok
GenericNext ==
    [pre_clone |-> "cloning", on_target_branch |-> "fetching",
     after_fetch |-> "merging", merge_conflict |-> "skip",
     after_merge |-> "beginning", all_evaluations_passed |-> "success"]

\* the steps of a strategy other than NixpkgsStrategy
GenericStep ==
    /\ wPhase = "evaluating"
    /\ oneEval.strategy = "generic"
    /\ oneEval.pc \in DOMAIN GenericNext
    /\ \E result \in StepResults :
          IF result = <<>> \/ oneEval.pc = "merge_conflict"
          THEN Goto(GenericNext[oneEval.pc])
          ELSE Failed(result[1])
    /\ UNCHANGED <<wNotified, github>>
    /\ EvalUnchanged

\* make_gist: the forge with the gist, the URL being its position
make_gist(gh, filename, description, content) ==
    [gh EXCEPT !.gists = Append(@, [filename |-> filename,
                                    description |-> description,
                                    content |-> content])]

GistUrl(gh) == "https://gist.github.com/" \o CharAt("0123456789", Len(gh.gists) + 1)

\* the checks run by an iterator that is driven to its end
RECURSIVE RunEveryCheck(_, _, _, _, _)
RunEveryCheck(gh, prefix, checks, outcomes, i) ==
    IF i > Len(checks) THEN [gh |-> gh, ok |-> TRUE]
    ELSE LET context == prefix \o "-eval-" \o checks[i]
             pending == CreateStatus(gh, context, "nix-instantiate", "Pending", None)
             gisted  == make_gist(pending, context, "Failure", "error: ...")
         IN  CASE outcomes[i] = "pending fails" ->
                    [gh |-> [gh EXCEPT !.panicked = TRUE], ok |-> FALSE]
               [] outcomes[i] = "final fails" ->
                    [gh |-> [pending EXCEPT !.panicked = TRUE], ok |-> FALSE]
               [] outcomes[i] = "Success" ->
                    RunEveryCheck(CreateStatus(pending, context, "nix-instantiate",
                                               "Success", None),
                                  prefix, checks, outcomes, i + 1)
               [] outcomes[i] = "Failure" ->
                    LET rest == RunEveryCheck(
                                    CreateStatus(gisted, context, "nix-instantiate",
                                                 "Failure", GistUrl(pending)),
                                    prefix, checks, outcomes, i + 1)
                    IN  [gh |-> rest.gh, ok |-> FALSE]

\* lines 410-454: the checks from position i on, run as the iterator that
\* all() drives runs them: ok is what all() returns
RECURSIVE RunChecks(_, _, _, _, _)
RunChecks(gh, prefix, checks, outcomes, i) ==
    IF i > Len(checks) THEN [gh |-> gh, ok |-> TRUE]
    ELSE LET context == prefix \o "-eval-" \o checks[i]
             pending == CreateStatus(gh, context, "nix-instantiate", "Pending", None)
             gisted  == make_gist(pending, context, "Failure", "error: ...")
         IN  CASE outcomes[i] = "pending fails" ->
                    [gh |-> [gh EXCEPT !.panicked = TRUE], ok |-> FALSE]
               [] outcomes[i] = "final fails" ->
                    [gh |-> [pending EXCEPT !.panicked = TRUE], ok |-> FALSE]
               [] outcomes[i] = "Success" ->
                    RunChecks(CreateStatus(pending, context, "nix-instantiate",
                                           "Success", None),
                              prefix, checks, outcomes, i + 1)
               [] outcomes[i] = "Failure" ->
                    \* all() asks for no further check
                    [gh |-> CreateStatus(gisted, context, "nix-instantiate",
                                         "Failure", GistUrl(pending)),
                     ok |-> FALSE]

\* the checks of a strategy other than NixpkgsStrategy
GenericChecks ==
    /\ wPhase = "evaluating"
    /\ oneEval.strategy = "generic"
    /\ oneEval.pc = "evaluation_checks"
    /\ \E checks \in EvaluationChecks, outcomes \in [1..2 -> CheckOutcomes] :
          LET run == RunChecks(github, oneEval.prefix, checks, outcomes, 1)
          IN  /\ github' = run.gh
              /\ oneEval' = [oneEval EXCEPT
                     !.checks = checks,
                     !.pc = IF run.gh.panicked THEN @
                            ELSE IF run.ok THEN "all_evaluations_passed"
                            ELSE "with_errors"]
              /\ wPhase' = IF run.gh.panicked THEN "panicked" ELSE wPhase
              /\ UNCHANGED wActions
    /\ UNCHANGED wNotified
    /\ EvalUnchanged

\* worker_actions returns actions; result is what its match went by: the
\* actions of evaluate_job, or how reporting its error ended
Returned(actions, result) ==
    /\ Consumed(actions)
    /\ oneEval' = [oneEval EXCEPT !.pc = "returned", !.result = result]

\* evaluate_job returns Ok(actions): the job skipped, or done
ReturnOk ==
    /\ wPhase = "evaluating"
    /\ oneEval.pc \in {"skip", "done"}
    /\ IF oneEval.pc = "skip"
       THEN /\ Returned(skip(wJob[1]), "Actions")
            /\ UNCHANGED wNotified
       ELSE /\ Returned(done(wJob[1], oneEval.response), "Actions")
            /\ wNotified' = Append(wNotified, "TaskEvaluationCheckComplete")
    /\ UNCHANGED github
    /\ EvalUnchanged

\* update_status: the prefix is looked up, then the status is created
update_status(gh, description, url, state, listed, created) ==
    IF listed # "Ok" THEN [gh |-> gh, result |-> listed]
    ELSE IF created # "Ok" THEN [gh |-> gh, result |-> created]
    ELSE [gh |-> CreateStatus(gh, get_prefix(gh) \o "-eval", description,
                              state, url),
          result |-> "Ok"]

\* ReportError with the gist made and its URL left out of the status
ReportErrorWithoutUrl(gh, e, listed, created) ==
    CASE e.kind = "Fail" ->
            update_status(gh, e.msg, None, "Failure", listed, created)
      [] e.kind = "FailWithGist" ->
            update_status(make_gist(gh, e.filename, "", e.content), e.msg,
                          None, "Failure", listed, created)
      [] e.kind = "CommitStatusWrite" -> [gh |-> gh, result |-> e.msg]

\* lines 202-216: the error of evaluate_job turned into the result of
\* reporting it
ReportError(gh, e, listed, created) ==
    CASE e.kind = "Fail" ->
            update_status(gh, e.msg, None, "Failure", listed, created)
      [] e.kind = "FailWithGist" ->
            update_status(make_gist(gh, e.filename, "", e.content), e.msg,
                          GistUrl(gh), "Failure", listed, created)
      [] e.kind = "CommitStatusWrite" -> [gh |-> gh, result |-> e.msg]

\* ErrorActions with every error skipped
ErrorActionsAlwaysSkip(job, result) == skip(job)

\* the actions for an error with what evaluate_job had to publish
ErrorActionsWithResponse(job, result) == done(job, oneEval.response)

\* lines 218-252: the actions for the result of reporting the error
ErrorActions(job, result) ==
    CASE result \in {"ExpiredCreds", "InternalError"} -> retry_later(job)
      [] result \in {"Ok", "MissingSha", "Error"}      -> skip(job)

\* worker_actions once evaluate_job has returned Err
WorkerActions ==
    /\ wPhase = "evaluating"
    /\ oneEval.pc = "failed"
    /\ \E gisted \in IF oneEval.error[1].kind = "FailWithGist" THEN BOOLEAN
                     ELSE {TRUE},
          listed \in IF oneEval.error[1].kind = "CommitStatusWrite" THEN {"Ok"}
                     ELSE StatusOutcomes,
          created \in IF oneEval.error[1].kind = "CommitStatusWrite" THEN {"Ok"}
                      ELSE StatusOutcomes,
          outcome \in LabelOutcomes :
          LET e        == oneEval.error[1]
              reported == ReportError(github, e, listed, created)
              labelled == update_labels(reported.gh, <<"ofborg-internal-error">>,
                                        <<>>, outcome)
          IN  IF e.kind = "FailWithGist" /\ ~gisted
              THEN \* make_gist: Failed to create gist!
                   Panicked /\ UNCHANGED github
              ELSE IF reported.result = "Error"
              THEN /\ github' = labelled
                   /\ IF labelled.panicked THEN Panicked
                      ELSE Returned(ErrorActions(wJob[1], reported.result),
                                    reported.result)
              ELSE /\ github' = reported.gh
                   /\ Returned(ErrorActions(wJob[1], reported.result),
                               reported.result)
    /\ UNCHANGED wNotified
    /\ EvalUnchanged

\* someone else writes a status with the old prefix to the head commit
OtherStatusWritten ==
    /\ wPhase = "evaluating"
    /\ github.seen
    /\ ~github.legacy
    /\ github' = [github EXCEPT !.legacy = TRUE]
    /\ UNCHANGED <<wPhase, wWorker, wBody, wDecoded, wJob, wActions, wCursor,
                   wOutbox, wSettled, wNotified, recorded, oneEval, wCount>>

-----------------------------------------------------------------------------
(* outpathdiff.rs: OutPathDiff.                                            *)

\* the set of the elements of a sequence
Range(seq) == {seq[i] : i \in 1..Len(seq)}

\* the orders in which a HashSet or the keys of a HashMap may be iterated:
\* every element once
Orders(S) == {f \in [1..Cardinality(S) -> S] : Range(f) = S}

PackageArch(package, architecture) ==
    [package |-> package, architecture |-> architecture]

\* the attributes and the out paths the evaluations below know of
PackageArchs ==
    {PackageArch("hello", "x86_64-linux"), PackageArch("hello", "x86_64-darwin"),
     PackageArch("nginx", "x86_64-linux")}

OutPaths == {"/nix/store/aaa", "/nix/store/bbb"}

\* PackageOutPaths: HashMap<PackageArch, OutPath>
PackageOutPathsOf(keys) == UNION {[S -> OutPaths] : S \in SUBSET keys}

\* what run() may return: Err, or the out paths of an evaluation
RunResults == {<<>>} \cup {<<m>> : m \in PackageOutPathsOf(PackageArchs)}

\* HashMap::get
get(map, key) == IF key \in DOMAIN map THEN <<map[key]>> ELSE <<>>

\* nothing asked of the two maps yet; last is the call of find_before or
\* find_after made last (whether it ran the evaluator, what it returned),
\* before_ok that a find_before has returned Ok, after_ok that a find_after
\* has returned Ok after that
NotDiffed ==
    [called |-> {}, diff |-> <<>>, rebuild |-> <<>>,
     last |-> [op |-> "none", ran |-> FALSE, result |-> ""],
     before_ok |-> FALSE, after_ok |-> FALSE]

\* OutPathDiff::new
InitDiff ==
    /\ outPathDiff = [original |-> <<>>, current |-> <<>>]
    /\ diffed = NotDiffed

\* the call op was made: ran says whether it called run(), result is what
\* it returned
FindCalled(op, ran, result) ==
    diffed' = [NotDiffed EXCEPT
                  !.last = [op |-> op, ran |-> ran, result |-> result],
                  !.before_ok = diffed.before_ok
                                \/ (op = "find_before" /\ result = "Ok"),
                  !.after_ok = diffed.after_ok
                               \/ (op = "find_after" /\ result = "Ok"
                                   /\ diffed.before_ok)]

\* what a call returns for what run() returned
ResultOf(ran) == IF ran = <<>> THEN "Err" ELSE "Ok"

\* find_before
find_before ==
    \E ran \in RunResults :
        /\ outPathDiff' = IF ran = <<>> THEN outPathDiff
                          ELSE [outPathDiff EXCEPT !.original = ran]
        /\ FindCalled("find_before", TRUE, ResultOf(ran))

\* find_after without the test of original
find_after_whatever_before ==
    \E ran \in RunResults :
        /\ outPathDiff' = IF ran = <<>> THEN outPathDiff
                          ELSE [outPathDiff EXCEPT !.current = ran]
        /\ FindCalled("find_after", TRUE, ResultOf(ran))

\* find_after
find_after ==
    IF outPathDiff.original = <<>>
    THEN /\ outPathDiff' = outPathDiff
         /\ FindCalled("find_after", FALSE, "Ok")
    ELSE \E ran \in RunResults :
            /\ outPathDiff' = IF ran = <<>> THEN outPathDiff
                              ELSE [outPathDiff EXCEPT !.current = ran]
            /\ FindCalled("find_after", TRUE, ResultOf(ran))

\* package_diff keeping the keys the two maps share as removed
PackageDiffOfAllKeys(orig, cur) ==
    {[removed |-> removed, added |-> added] :
        removed \in Orders(DOMAIN orig),
        added \in Orders((DOMAIN cur) \ (DOMAIN orig))}

\* lines 43-54: (removed, added), in each order the two differences may be
\* iterated in
PackageDiffOf(orig, cur) ==
    {[removed |-> removed, added |-> added] :
        removed \in Orders((DOMAIN orig) \ (DOMAIN cur)),
        added \in Orders((DOMAIN cur) \ (DOMAIN orig))}

\* package_diff: the values it may return
package_diff(self) ==
    IF self.current = <<>> \/ self.original = <<>> THEN {<<>>}
    ELSE {<<d>> : d \in PackageDiffOf(self.original[1], self.current[1])}

\* calculate_rebuild pushing every key of cur
RebuildOfAllKeys(orig, cur) == Orders(DOMAIN cur)

\* lines 68-76: the keys of cur whose out path is not the one orig has for
\* them, in each order the keys may be iterated in
RebuildOf(orig, cur) ==
    {SelectSeq(keys, LAMBDA key : get(cur, key) # get(orig, key)) :
        keys \in Orders(DOMAIN cur)}

\* calculate_rebuild: the values it may return
calculate_rebuild(self) ==
    IF self.current = <<>> \/ self.original = <<>> THEN {<<>>}
    ELSE {<<r>> : r \in RebuildOf(self.original[1], self.current[1])}

\* a call of package_diff
PackageDiffCalled ==
    /\ \E returned \in package_diff(outPathDiff) :
          diffed' = [diffed EXCEPT !.called = @ \cup {"package_diff"},
                                   !.diff = returned]
    /\ UNCHANGED outPathDiff

\* a call of calculate_rebuild
CalculateRebuildCalled ==
    /\ \E returned \in calculate_rebuild(outPathDiff) :
          diffed' = [diffed EXCEPT !.called = @ \cup {"calculate_rebuild"},
                                   !.rebuild = returned]
    /\ UNCHANGED outPathDiff

NextDiff ==
    \/ find_before /\ UNCHANGED <<aVars, whVars, wVars, rebuildTagger, maintainerTagger>>
    \/ find_after /\ UNCHANGED <<aVars, whVars, wVars, rebuildTagger, maintainerTagger>>
    \/ PackageDiffCalled
          /\ UNCHANGED <<aVars, whVars, wVars, rebuildTagger, maintainerTagger>>
    \/ CalculateRebuildCalled
          /\ UNCHANGED <<aVars, whVars, wVars, rebuildTagger, maintainerTagger>>

-----------------------------------------------------------------------------
(* maintainers.rs and tagger.rs: the taggers.                              *)

\* Maintainer::from(&str)
MaintainerFrom(name) == ToLowercase(name)

\* the logins as the side evaluator may print them, and the packages
Logins == {"alice", "Alice", "bob"}
Packages == {"hello", "nginx"}

\* ImpactedMaintainers as serde reads it: the keys are Maintainer(String)
\* with the text of the document, the values the packages of each
ImpactedMaintainersSet ==
    UNION {[S -> {<<"hello">>, <<"nginx">>, <<"hello", "nginx">>}] :
              S \in SUBSET Logins}

\* ImpactedMaintainers::maintainers_by_package
maintainers_by_package(impacted) ==
    LET listed == {package \in Packages :
                      \E m \in DOMAIN impacted : package \in Range(impacted[m])}
    IN  [package \in listed |->
            {m \in DOMAIN impacted : package \in Range(impacted[m])}]

\* lines 76-88: the submitter maintains every package, and there is one
IsByMaintainer(pr_submitter, identified_maintainers) ==
    LET submitter == MaintainerFrom(pr_submitter)
    IN  /\ DOMAIN identified_maintainers # {}
        /\ \A package \in DOMAIN identified_maintainers :
              submitter \in identified_maintainers[package]

\* MaintainerPrTagger::new
MaintainerPrTaggerNew == [recorded |-> <<>>, selected |-> <<>>]

\* MaintainerPrTagger::record_maintainer, on a tagger just made
record_maintainer ==
    /\ maintainerTagger.recorded = <<>>
    /\ \E pr_submitter \in Logins, impacted \in ImpactedMaintainersSet :
          LET identified_maintainers == maintainers_by_package(impacted)
          IN  maintainerTagger' =
                 [recorded |-> <<[pr_submitter |-> pr_submitter,
                                  identified_maintainers |-> identified_maintainers]>>,
                  selected |->
                     IF IsByMaintainer(pr_submitter, identified_maintainers)
                     THEN Append(maintainerTagger.selected,
                                 "11.by: package-maintainer")
                     ELSE maintainerTagger.selected]

\* the tagger is dropped and another one made
new_maintainer_tagger ==
    /\ maintainerTagger.recorded # <<>>
    /\ maintainerTagger' = MaintainerPrTaggerNew

NextMaintainerTagger ==
    \/ record_maintainer /\ UNCHANGED <<aVars, whVars, wVars, outPathDiff, diffed, rebuildTagger>>
    \/ new_maintainer_tagger
          /\ UNCHANGED <<aVars, whVars, wVars, outPathDiff, diffed, rebuildTagger>>

\* the buckets of one architecture, in the order of possible
Buckets ==
    <<"0", "1", "1-10", "11-100", "101-500", "501+", "501-1000", "1001-2500",
      "2501-5000", "5001+">>

RebuildLabel(kind, bucket_) == "10.rebuild-" \o kind \o ": " \o bucket_

\* RebuildTagger's possible: every bucket of darwin, then of linux
Possible ==
    [i \in 1..Len(Buckets) |-> RebuildLabel("darwin", Buckets[i])]
    \o [i \in 1..Len(Buckets) |-> RebuildLabel("linux", Buckets[i])]

\* bucket_name with 500 in the band above
bucket_name_500_above(count) ==
    CASE count = 0    -> "0"
      [] count <= 10   -> "1-10"
      [] count <= 100  -> "11-100"
      [] count < 500   -> "101-500"
      [] count <= 1000 -> "501-1000"
      [] count <= 2500 -> "1001-2500"
      [] count <= 5000 -> "2501-5000"
      [] OTHER         -> "5001+"

\* the band of a count
bucket_name(count) ==
    CASE count = 0    -> "0"
      [] count <= 10   -> "1-10"
      [] count <= 100  -> "11-100"
      [] count <= 500  -> "101-500"
      [] count <= 1000 -> "501-1000"
      [] count <= 2500 -> "1001-2500"
      [] count <= 5000 -> "2501-5000"
      [] OTHER         -> "5001+"

\* the labels selected for one architecture
bucket(kind, count) ==
    (IF count > 500 THEN <<RebuildLabel(kind, "501+")>> ELSE <<>>)
    \o (IF count = 1 THEN <<RebuildLabel(kind, "1")>> ELSE <<>>)
    \o <<RebuildLabel(kind, bucket_name(count))>>

\* the numbers of attributes rebuilt the tagger is tried with
Counts == {0, 1, 2, 10, 11, 100, 101, 500, 501, 1000, 1001, 2500, 2501, 5000,
           5001, 5002}

\* tagger.rs, tests: tags_to_add for linux(n).and_darwin(n), the buckets of
\* one architecture
test_packages_changed ==
    [n \in {0, 1, 10, 11, 100, 101, 500, 501, 1000, 1001, 2500, 2501, 5000, 5001}
       |-> CASE n = 0 -> <<"0">>
             [] n = 1 -> <<"1", "1-10">>
             [] n = 10 -> <<"1-10">>
             [] n \in {11, 100} -> <<"11-100">>
             [] n \in {101, 500} -> <<"101-500">>
             [] n \in {501, 1000} -> <<"501+", "501-1000">>
             [] n \in {1001, 2500} -> <<"501+", "1001-2500">>
             [] n \in {2501, 5000} -> <<"501+", "2501-5000">>
             [] n = 5001 -> <<"501+", "5001+">>]

\* RebuildTagger::new
InitTaggers ==
    /\ rebuildTagger = [parsed |-> <<>>, selected |-> <<>>]
    /\ maintainerTagger = MaintainerPrTaggerNew

\* RebuildTagger::parse_attrs, attrs holding linux attributes of
\* x86_64-linux and darwin ones of x86_64-darwin
parse_attrs ==
    /\ \E linux \in Counts, darwin \in Counts :
          rebuildTagger' =
             [parsed   |-> <<[linux |-> linux, darwin |-> darwin]>>,
              selected |-> bucket("darwin", darwin) \o bucket("linux", linux)]
    /\ UNCHANGED maintainerTagger

\* RebuildTagger::tags_to_add
tags_to_add(tagger) == tagger.selected

\* tags_to_remove returning every possible label
tags_to_remove_possible(tagger) == Possible

\* RebuildTagger::tags_to_remove: what is possible and not selected
tags_to_remove(tagger) ==
    SelectSeq(Possible, LAMBDA tag : ~SeqContains(tagger.selected, tag))

NextRebuildTagger ==
    \/ parse_attrs /\ UNCHANGED <<aVars, whVars, wVars, outPathDiff, diffed>>

-----------------------------------------------------------------------------
(* update_labels by itself, on any issue and with any labels.              *)

LabelNames == {"2.status: merge conflict", "6.topic: darwin",
               "ofborg-internal-error"}

\* the lists of up to two labels, a label twice among them (two words of a
\* title may stand for one label)
LabelLists ==
    {<<>>} \cup {<<a>> : a \in LabelNames}
           \cup {<<a, b>> : a \in LabelNames, b \in LabelNames}

\* the labels an issue may have: none twice
IssueLabels == {ls \in LabelLists : Cardinality(Range(ls)) = Len(ls)}

\* the forge holds an issue with some labels
IssueLabelled ==
    /\ github = NoGithub
    /\ \E labels \in IssueLabels :
          github' = [seen        |-> TRUE,
                     legacy      |-> FALSE,
                     labels      |-> labels,
                     statuses    |-> <<>>,
                     label_calls |-> <<>>,
                     gists       |-> <<>>,
                     panicked    |-> FALSE]
    /\ UNCHANGED <<wPhase, wWorker, wBody, wDecoded, wJob, wActions, wCursor,
                   wOutbox, wSettled, wNotified, recorded, oneEval, wCount>>

\* update_labels(issueref, add, remove)
UpdateLabelsCalled ==
    /\ github.seen
    /\ github.label_calls = <<>>
    /\ \E add \in LabelLists, remove \in LabelLists, outcome \in LabelOutcomes :
          github' = update_labels(github, add, remove, outcome)
    /\ UNCHANGED <<wPhase, wWorker, wBody, wDecoded, wJob, wActions, wCursor,
                   wOutbox, wSettled, wNotified, recorded, oneEval, wCount>>

NextUpdateLabels ==
    \/ IssueLabelled /\ UNCHANGED <<whVars, tVars, aVars>>
    \/ UpdateLabelsCalled /\ UNCHANGED <<whVars, tVars, aVars>>

-----------------------------------------------------------------------------
(* bin/logapi.rs: the log read API.                                        *)

\* str::ends_with
EndsWith(s, suffix) ==
    Len(s) >= Len(suffix) /\ SubSeq(s, Len(s) - Len(suffix) + 1, Len(s)) = suffix

\* str::strip_prefix: <<the rest>>, or <<>> for None
StripPrefix(s, prefix) ==
    IF StartsWith(s, prefix) THEN <<SubSeq(s, Len(prefix) + 1, Len(s))>> ELSE <<>>

\* cfg.logs_path and cfg.serve_root
logs_path == "/srv/logs"
serve_root == "https://logs.example.org/logfile"

\* the directories and the regular files of the machine, each the list of
\* the names from the root down to it
Dirs == {<<>>, <<"etc">>, <<"srv">>, <<"srv", "logs">>,
         <<"srv", "logs", "pr1">>}
RegularFiles == {<<"etc", "passwd">>, <<"srv", "logs", "pr1", "a1.log">>}

LogsDir == <<"srv", "logs">>
AttemptsDir == <<"srv", "logs", "pr1">>

\* [base, reqd].iter().collect::<PathBuf>(): PathBuf::push puts an absolute
\* path in the place of what was there, and a relative one behind a slash
PathBufCollect(base, reqd) ==
    IF StartsWith(reqd, "/") THEN reqd
    ELSE IF EndsWith(base, "/") THEN base \o reqd
    ELSE base \o "/" \o reqd

\* std::fs::canonicalize of the absolute path whose names are components,
\* from the directory or file at: <<the canonical path>>, or <<>> where a
\* name does not exist or a file is taken for a directory
RECURSIVE Resolve(_, _)
Resolve(components, at) ==
    IF components = <<>> THEN <<at>>
    ELSE IF at \in RegularFiles THEN <<>>
    ELSE LET c    == Head(components)
             rest == Tail(components)
         IN  IF c = "" \/ c = "." THEN Resolve(rest, at)
             ELSE IF c = ".."
             THEN Resolve(rest, IF at = <<>> THEN <<>>
                                ELSE SubSeq(at, 1, Len(at) - 1))
             ELSE IF Append(at, c) \in Dirs \cup RegularFiles
             THEN Resolve(rest, Append(at, c))
             ELSE <<>>

canonicalize(path) == Resolve(Split(path, "/"), <<>>)

\* what serde_json reads from a file: nothing (<<>>) when it is not JSON,
\* else the value, of which the model keeps the member attempt_id (a
\* string, a number, or absent) and the rest
Json(type, attempt_id, rest) ==
    <<[attempt_id |-> [type |-> type, text |-> attempt_id], rest |-> rest]>>

\* an entry of a directory: its name (<<>> when it is not UTF-8), what
\* DirEntry::metadata says of it ("error" when it fails, else what the
\* entry is), whether File::open opens it, what it holds
DirEntry(name, stat, opens, json) ==
    [name |-> name, kind |-> IF stat = "error" THEN "file" ELSE stat,
     stat |-> stat, opens |-> opens, json |-> json]

\* the entries the directory of an attempt may have
Entries ==
    {DirEntry(<<"a1.metadata.json">>, "file", TRUE, Json("string", "a1", "m1")),
     DirEntry(<<"a1.result.json">>, "file", TRUE, Json("string", "a1", "r1")),
     DirEntry(<<"a2.metadata.json">>, "file", TRUE, Json("string", "a1", "m2")),
     DirEntry(<<"a1">>, "file", TRUE, <<>>),
     DirEntry(<<"a1.log">>, "file", TRUE, <<>>),
     DirEntry(<<"bad.metadata.json">>, "file", TRUE, <<>>),
     DirEntry(<<"num.result.json">>, "file", TRUE, Json("number", "7", "r2")),
     DirEntry(<<"noid.metadata.json">>, "file", TRUE, Json("absent", "", "m3")),
     DirEntry(<<"locked.result.json">>, "file", FALSE, Json("string", "a1", "r3")),
     DirEntry(<<>>, "file", TRUE, <<>>),
     DirEntry(<<"sub">>, "dir", TRUE, <<>>),
     DirEntry(<<"link">>, "symlink", TRUE, <<>>),
     DirEntry(<<"a3.log">>, "error", TRUE, <<>>)}

\* how many entries the directory of an attempt has at most
MaxEntries == 3

\* what a directory holds: the attempts' directory any few of Entries, the
\* others what the machine has in them
Holds(dir) ==
    IF dir = AttemptsDir
    THEN {S \in SUBSET Entries : Cardinality(S) <= MaxEntries}
    ELSE {{DirEntry(<<d[Len(d)]>>, "dir", TRUE, <<>>) :
              d \in {x \in Dirs : Len(x) = Len(dir) + 1
                                    /\ SubSeq(x, 1, Len(dir)) = dir}}
          \cup {DirEntry(<<f[Len(f)]>>, "file", TRUE, <<>>) :
                  f \in {x \in RegularFiles : Len(x) = Len(dir) + 1
                                    /\ SubSeq(x, 1, Len(dir)) = dir}}}

\* Attempt::default() and the empty map
DefaultAttempt == [metadata |-> <<>>, result |-> <<>>, log_url |-> <<>>]
NoAttempts == [a \in {} |-> DefaultAttempt]

\* the attempt made anew each time a field of it is set
SetAttemptAnew(attempts, key, field, value) ==
    [a \in DOMAIN attempts \cup {key} |->
        IF a # key THEN attempts[a]
        ELSE IF field = "metadata" THEN [DefaultAttempt EXCEPT !.metadata = <<value>>]
        ELSE IF field = "result" THEN [DefaultAttempt EXCEPT !.result = <<value>>]
        ELSE [DefaultAttempt EXCEPT !.log_url = <<value>>]]

\* attempts.entry(key).or_insert_with(Attempt::default) with one field set
SetAttempt(attempts, key, field, value) ==
    [a \in DOMAIN attempts \cup {key} |->
        LET old == IF a \in DOMAIN attempts THEN attempts[a] ELSE DefaultAttempt
        IN  IF a # key THEN old
            ELSE IF field = "metadata" THEN [old EXCEPT !.metadata = <<value>>]
            ELSE IF field = "result" THEN [old EXCEPT !.result = <<value>>]
            ELSE [old EXCEPT !.log_url = <<value>>]]

LogResponse(status, sent, attempts) ==
    [status |-> status, sent |-> sent, attempts |-> attempts]

\* the scan taking every regular file that is not JSON of an attempt for
\* a log
RECURSIVE ScanAllLogs(_, _, _)
ScanAllLogs(iter, reqd, attempts) ==
    IF iter = <<>> THEN LogResponse(200, "attempts", attempts)
    ELSE LET e == Head(iter)
         IN  IF e.stat \in {"dir", "error"}
             THEN LogResponse(500, "dir found", NoAttempts)
             ELSE IF e.stat # "file" \/ e.name = <<>>
             THEN ScanAllLogs(Tail(iter), reqd, attempts)
             ELSE ScanAllLogs(Tail(iter), reqd,
                      SetAttempt(attempts, e.name[1], "log_url",
                                 serve_root \o "/" \o reqd \o "/" \o e.name[1]))

\* lines 64-127: the entries in the order read_dir gives them
RECURSIVE Scan(_, _, _)
Scan(iter, reqd, attempts) ==
    IF iter = <<>> THEN LogResponse(200, "attempts", attempts)
    ELSE LET e    == Head(iter)
             next == Scan(Tail(iter), reqd, attempts)
         IN  IF e.stat \in {"dir", "error"}
             THEN \* is_dir, or metadata() failed: unwrap_or(true)
                  LogResponse(500, "dir found", NoAttempts)
             ELSE IF e.stat # "file" THEN next
             ELSE IF e.name = <<>> THEN next
             ELSE LET file_name == e.name[1]
                  IN  IF EndsWith(file_name, ".metadata.json")
                         \/ EndsWith(file_name, ".result.json")
                      THEN IF ~e.opens \/ e.json = <<>>
                              \/ e.json[1].attempt_id.type # "string"
                           THEN next
                           ELSE Scan(Tail(iter), reqd,
                                    SetAttempt(attempts,
                                        e.json[1].attempt_id.text,
                                        IF EndsWith(file_name, ".metadata.json")
                                        THEN "metadata" ELSE "result",
                                        e.json[1]))
                      ELSE Scan(Tail(iter), reqd,
                               SetAttempt(attempts, file_name, "log_url",
                                   serve_root \o "/" \o reqd \o "/" \o file_name))

\* the URI of a request as hyper hands it on
Uris == {"/logs/pr1", "/logs/pr1/", "/logs/./pr1", "/logs/", "/logs",
         "/logs/pr2", "/logs/pr1/a1.log", "/logs/pr1/a1.log/..",
         "/logs/pr1/..", "/logs/..", "/logs/../../etc", "/logs//etc",
         "/logs//srv/logs/pr1", "/logs/../logs/pr1", "/other/pr1", "/"}

NoLogRequest == [seen |-> FALSE]

InitLogApi == logApi = NoLogRequest

\* what the handler did: the request, the path it made of it, the directory
\* it read (<<>> if none) with what read_dir gave, and the response
Handled(method, uri, reqd, read, iter, res) ==
    [seen |-> TRUE, method |-> method, uri |-> uri, reqd |-> reqd,
     read |-> read, iter |-> iter, res |-> res]

\* lines 52-57: the path of the request, canonical
ResolveRequest(reqd) == canonicalize(PathBufCollect(logs_path, reqd))

\* lines 40-128: the handler
HandleLogRequest ==
    /\ logApi = NoLogRequest
    /\ \E method \in Methods, uri \in Uris :
        LET stripped == StripPrefix(uri, "/logs/")
        IN  IF method # "GET"
            THEN logApi' = Handled(method, uri, <<>>, <<>>, <<>>,
                               LogResponse(405, "", NoAttempts))
            ELSE IF stripped = <<>>
            THEN logApi' = Handled(method, uri, <<>>, <<>>, <<>>,
                               LogResponse(404, "invalid uri", NoAttempts))
            ELSE LET reqd == stripped[1]
                     path == ResolveRequest(reqd)
                 IN  IF path = <<>>
                     THEN logApi' = Handled(method, uri, stripped, <<>>, <<>>,
                                        LogResponse(404, "absent", NoAttempts))
                     ELSE IF path[1] \notin Dirs
                     THEN logApi' = Handled(method, uri, stripped, <<>>, <<>>,
                                        LogResponse(404, "non dir", NoAttempts))
                     ELSE \E held \in Holds(path[1]) :
                             \E iter \in Orders(held) :
                                logApi' = Handled(method, uri, stripped, path,
                                              iter, Scan(iter, reqd, NoAttempts))

\* the handler has returned and waits for the next request
LogRequestDone ==
    /\ logApi # NoLogRequest
    /\ logApi' = NoLogRequest

NextLogApi ==
    \/ HandleLogRequest /\ UNCHANGED <<whVars, wVars, tVars, vending, titled>>
    \/ LogRequestDone /\ UNCHANGED <<whVars, wVars, tVars, vending, titled>>

-----------------------------------------------------------------------------
(* config.rs: GithubAppVendingMachine.                                     *)

\* the repositories asked for, owner and name
VendRepos == {<<"NixOS", "nixpkgs">>, <<"NixOS", "ofborg">>, <<"other", "repo">>}

\* what find_repo_installation may answer: an error, or an installation
Installations == {<<>>, <<7>>, <<8>>}

\* how many for_repo calls one machine gets
MaxCalls == 4

\* the machine as it is made: both caches empty; lookups and constructed
\* are the requests of the forge and the clients made, calls what for_repo
\* was asked and gave
NewVendingMachine ==
    [id_cache     |-> [k \in {} |-> <<>>],
     client_cache |-> [i \in {} |-> 0],
     lookups      |-> <<>>,
     constructed  |-> <<>>,
     calls        |-> <<>>]

InitVending == vending = NewVendingMachine

\* install_id_for_repo keeping the installations it finds only
install_id_found_only(vm, key, answer) ==
    IF key \in DOMAIN vm.id_cache /\ vm.id_cache[key] # <<>>
    THEN [vm |-> vm, id |-> vm.id_cache[key]]
    ELSE [vm |-> [vm EXCEPT
                     !.id_cache = [k \in DOMAIN vm.id_cache \cup {key} |->
                                      IF k = key THEN answer ELSE vm.id_cache[k]],
                     !.lookups = Append(@, key)],
          id |-> answer]

\* install_id_for_repo: entry(key).or_insert_with(lookup), answer being what
\* the forge says if it is asked
install_id_for_repo(vm, key, answer) ==
    IF key \in DOMAIN vm.id_cache
    THEN [vm |-> vm, id |-> vm.id_cache[key]]
    ELSE [vm |-> [vm EXCEPT
                     !.id_cache = [k \in DOMAIN vm.id_cache \cup {key} |->
                                      IF k = key THEN answer ELSE vm.id_cache[k]],
                     !.lookups = Append(@, key)],
          id |-> answer]

\* for_repo: the machine after it and the client it hands out (<<>> for
\* None), a client being known by the place it has in constructed
for_repo_of(vm, key, answer) ==
    LET found == install_id_for_repo(vm, key, answer)
    IN  IF found.id = <<>> THEN [vm |-> found.vm, client |-> <<>>]
        ELSE LET install_id == found.id[1]
             IN  IF install_id \in DOMAIN found.vm.client_cache
                 THEN [vm |-> found.vm,
                       client |-> <<found.vm.client_cache[install_id]>>]
                 ELSE LET made == Len(found.vm.constructed) + 1
                      IN  [vm |-> [found.vm EXCEPT
                                      !.client_cache =
                                          [i \in DOMAIN found.vm.client_cache
                                                   \cup {install_id} |->
                                              IF i = install_id THEN made
                                              ELSE found.vm.client_cache[i]],
                                      !.constructed = Append(@, install_id)],
                           client |-> <<made>>]

\* a call of for_repo
for_repo ==
    /\ Len(vending.calls) < MaxCalls
    /\ \E key \in VendRepos, answer \in Installations :
          LET got == for_repo_of(vending, key, answer)
          IN  vending' = [got.vm EXCEPT
                             !.calls = Append(@, [key |-> key,
                                                  id |-> got.vm.id_cache[key],
                                                  client |-> got.client])]

\* the process is started again: another machine
VendingRestart ==
    /\ vending.calls # <<>>
    /\ vending' = NewVendingMachine

NextVending ==
    \/ for_repo /\ UNCHANGED <<whVars, wVars, tVars, logApi, titled>>
    \/ VendingRestart /\ UNCHANGED <<whVars, wVars, tVars, logApi, titled>>

-----------------------------------------------------------------------------
(* label_from_title on any title.                                          *)

\* the words of the titles
TitleWords == {"darwin", "darwini", "bsd", "libsdl", "macos", "sigmacosine",
               "cross", "cross-compilation", "fix", "Darwin", "init"}

\* what stands between two words
TitleJoints == {" ", ": ", " on ", "_", "-"}

\* the titles: a word, or two words joined
Titles ==
    TitleWords \cup {a \o j \o b : a \in TitleWords, j \in TitleJoints,
                                   b \in TitleWords}
      \cup {"fix on bsd and darwin", "darwini: init", "sigmacosine: init"}

InitTitled == titled = [seen |-> FALSE]

\* label_from_title(title)
LabelFromTitleCalled ==
    /\ ~titled.seen
    /\ \E title \in Titles :
          titled' = [seen |-> TRUE, title |-> title,
                     labels |-> label_from_title(title)]

\* the labels were used; another title comes
LabelFromTitleReturned ==
    /\ titled.seen
    /\ titled' = [seen |-> FALSE]

NextLabelFromTitle ==
    \/ LabelFromTitleCalled /\ UNCHANGED <<whVars, wVars, tVars, logApi, vending>>
    \/ LabelFromTitleReturned
          /\ UNCHANGED <<whVars, wVars, tVars, logApi, vending>>

-----------------------------------------------------------------------------
(* The specifications.                                                     *)

Init ==
    /\ InitWebhook /\ InitWorkers /\ InitDiff /\ InitTaggers
    /\ InitLogApi /\ InitVending /\ InitTitled

\* the webhook receiver and the broker behind it
SpecWebhook == Init /\ [][NextWebhook]_vars

\* the workers, each consuming its queue
Next ==
    \/ Deliver /\ UNCHANGED <<whVars, tVars, aVars>>
    \/ Decode /\ UNCHANGED <<whVars, tVars, aVars>>
    \/ ConsumeEvaluationFilter /\ UNCHANGED <<whVars, tVars, aVars>>
    \/ ConsumeComment /\ UNCHANGED <<whVars, tVars, aVars>>
    \/ ConsumeStats /\ UNCHANGED <<whVars, tVars, aVars>>
    \/ BeginEvaluation /\ UNCHANGED <<whVars, tVars, aVars>>
    \/ FetchIssue /\ UNCHANGED <<whVars, tVars, aVars>>
    \/ GetPrefix /\ UNCHANGED <<whVars, tVars, aVars>>
    \/ SetStatus /\ UNCHANGED <<whVars, tVars, aVars>>
    \/ WorkingCopy /\ UNCHANGED <<whVars, tVars, aVars>>
    \/ NixpkgsStep /\ UNCHANGED <<whVars, tVars, aVars>>
    \/ GenericStep /\ UNCHANGED <<whVars, tVars, aVars>>
    \/ GenericChecks /\ UNCHANGED <<whVars, tVars, aVars>>
    \/ ReturnOk /\ UNCHANGED <<whVars, tVars, aVars>>
    \/ WorkerActions /\ UNCHANGED <<whVars, tVars, aVars>>
    \/ OtherStatusWritten /\ UNCHANGED <<whVars, tVars, aVars>>
    \/ Dispatch /\ UNCHANGED <<whVars, tVars, aVars>>
    \/ Finish /\ UNCHANGED <<whVars, tVars, aVars>>
    \/ Restart /\ UNCHANGED <<whVars, tVars, aVars>>

Spec == Init /\ [][Next]_vars

\* the out-path diff of one evaluation
SpecDiff == Init /\ [][NextDiff]_vars

\* the rebuild tagger
SpecRebuildTagger == Init /\ [][NextRebuildTagger]_vars

\* the maintainer tagger
SpecMaintainerTagger == Init /\ [][NextMaintainerTagger]_vars

\* update_labels on any issue
SpecUpdateLabels == Init /\ [][NextUpdateLabels]_vars

\* the log read API
SpecLogApi == Init /\ [][NextLogApi]_vars

\* one vending machine after another
SpecVending == Init /\ [][NextVending]_vars

\* label_from_title
SpecLabelFromTitle == Init /\ [][NextLabelFromTitle]_vars

-----------------------------------------------------------------------------
(* Properties of the webhook receiver, checked under SpecWebhook.          *)

\* the header is sha256=<hex> and the hex is the HMAC of the body
ValidSignature(sig, raw) ==
    /\ sig # None
    /\ StartsWith(sig, "sha256=")
    /\ HexDecode(SubSeq(sig, 8, Len(sig))) = HmacSha256(WebhookSecret, raw)

\* the request was a POST whose body was read in full
BodyRead == whReq.method = "POST" /\ whReq.raw # ReadError

Delivered(q, m) == \E j \in 1..Len(queues[q]) : queues[q][j] = m

\* C4: a POST whose X-Hub-Signature-256 header is absent, malformed, of another
\* algorithm, not hex, or not the HMAC-SHA256 of the body that was read is
\* answered 400 and hands nothing to the broker; whatever is published was
\* sent with a verified signature.
C4_SignatureGate ==
    /\ (BodyRead /\ ~ValidSignature(whReq.sig, whReq.raw))
            => (whRes.status = 400 /\ whSent = <<>>)
    /\ whSent # <<>> => ValidSignature(whReq.sig, whReq.raw)

C4_Witness ==
    /\ BodyRead
    /\ StartsWith(whReq.sig, "sha1=")
    /\ whRes = [status |-> 400, text |-> "Invalid signature hash method"]
    /\ whSent = <<>>

\* C5: a 204 response implies that exactly one message with the request's body
\* was accepted by the broker on github-events.
C5_NoContentOnlyWhenAccepted ==
    whRes.status = 204 =>
        /\ Len(whSent) = 1
        /\ whSent[1].accepted
        /\ exchange # <<>>
        /\ exchange[Len(exchange)].body = whReq.raw

\* C6: the body of every message the receiver publishes is the request body,
\* member for member in the order received.
C6_BodyByteExact ==
    /\ \A i \in 1..Len(whSent) : whSent[i].msg.body = whReq.raw
    /\ (whSent # <<>> /\ whSent[1].accepted) =>
            /\ exchange[Len(exchange)].body = whReq.raw
            /\ \A q \in RouteTo(whSent[1].msg.routing_key) :
                    queues[q][Len(queues[q])].body = whReq.raw

C6_Witness ==
    /\ whSent # <<>>
    /\ whSent[1].accepted
    /\ whReq.raw = WebhookBodies[1]
    /\ Delivered("mass-rebuild-check-inputs", whSent[1].msg)

NoUpperCase(s) == \A i \in 1..Len(s) : IndexOf(UpperChars, CharAt(s, i)) = 0

\* C7: every publish goes to github-events under the key
\* <X-Github-Event>.<lower-cased repository.full_name>; with the event header
\* missing or the body not a GenericWebhook the answer is 400 and nothing is
\* published.
C7_RoutingKey ==
    /\ \A i \in 1..Len(whSent) :
        LET full_name == Get(whReq.raw, "repository.full_name").s
            key       == whSent[i].msg.routing_key
        IN  /\ whSent[i].msg.exchange = "github-events"
            /\ Len(key) = Len(whReq.event) + 1 + Len(full_name)
            /\ SubSeq(key, 1, Len(whReq.event) + 1) = whReq.event \o "."
            /\ NoUpperCase(SubSeq(key, Len(whReq.event) + 2, Len(key)))
            /\ ToLowercase(SubSeq(key, Len(whReq.event) + 2, Len(key)))
                    = ToLowercase(full_name)
    /\ (whSent # <<>> /\ whReq.event = "pull_request"
            /\ Get(whReq.raw, "repository.full_name") = JStr("NixOS/Nixpkgs"))
        => whSent[1].msg.routing_key = "pull_request.nixos/nixpkgs"
    /\ (BodyRead /\ (whReq.event = None \/ ~IsJson(whReq.raw)
                        \/ ~HasRepository(whReq.raw)))
        => (whRes.status = 400 /\ whSent = <<>>)

C7_Witness ==
    /\ whRes.status = 204
    /\ whSent # <<>>
    /\ whSent[1].msg.routing_key = "pull_request.nixos/nixpkgs"
    /\ Get(whReq.raw, "repository.full_name") = JStr("NixOS/Nixpkgs")

\* the bindings other than the one of github-events-unknown
OtherBindingMatches(routing_key) ==
    \/ TopicMatch("issue_comment.*", routing_key)
    \/ TopicMatch("pull_request.nixos/nixpkgs", routing_key)
    \/ TopicMatch("pull_request.nixos/*", routing_key)

\* C8 as claimed: every accepted message that neither the issue_comment.*
\* binding nor a pull_request binding matches is delivered to
\* github-events-unknown.
C8_UnknownIsCatchall ==
    \A i \in 1..Len(exchange) :
        ~OtherBindingMatches(exchange[i].routing_key)
            => Delivered("github-events-unknown", exchange[i])

\* C8 as amended: github-events-unknown receives exactly the messages whose
\* routing key is unknown.<one word>; a message no binding matches is in no
\* queue at all.
C8_UnknownBinding ==
    \A i \in 1..Len(exchange) :
        LET words == Split(exchange[i].routing_key, ".")
        IN  /\ Delivered("github-events-unknown", exchange[i])
                <=> (Len(words) = 2 /\ words[1] = "unknown")
            /\ (~OtherBindingMatches(exchange[i].routing_key)
                    /\ words[1] # "unknown")
                => \A q \in QueueNames : ~Delivered(q, exchange[i])

C8_Witness ==
    \E i \in 1..Len(exchange) :
        /\ exchange[i].routing_key = "pull_request.acme/tools"
        /\ \A q \in QueueNames : ~Delivered(q, exchange[i])

-----------------------------------------------------------------------------
(* Properties of the workers, checked under Spec.                          *)

\* the messages of the Publish actions of a list, in order
RECURSIVE Messages(_)
Messages(actions) ==
    IF actions = <<>> THEN <<>>
    ELSE (IF IsPublish(Head(actions)) THEN <<Head(actions).msg>> ELSE <<>>)
         \o Messages(Tail(actions))

\* C1: whatever list of actions a consumer returns (the evaluation filter,
\* the comment filter, the evaluator, the stats collector), an Ack,
\* NackRequeue or NackDump in it is its last element, so there is at most one.
C1_TerminalIsLast ==
    \A i \in 1..Len(wActions) : IsTerminal(wActions[i]) => i = Len(wActions)

\* the evaluator returned the publishes of a scheduled build and then the Ack
C1_Witness ==
    /\ wWorker = "mass-rebuilder"
    /\ wPhase = "dispatching"
    /\ Len(wActions) >= 3
    /\ \A i \in 1..(Len(wActions) - 1) : IsPublish(wActions[i])
    /\ wActions[Len(wActions)] = Ack

\* C2: in the list a consumer returns every Publish stands before the
\* terminal action, and when the loop acks or nacks the delivery as the
\* consumer asked, every message of the list has already been published, in
\* the order of the list.
C2_PublishedBeforeSettled ==
    /\ \A i, j \in 1..Len(wActions) :
          IsPublish(wActions[i]) /\ IsTerminal(wActions[j]) => i < j
    /\ \A k \in 1..Len(wSettled) :
          wSettled[k].by = "consumer" => wOutbox = Messages(wActions)

\* the comment filter's delivery is acked after five publishes went out
C2_Witness ==
    /\ wWorker = "github-comment-filter"
    /\ wSettled = <<Settled(Ack, "consumer")>>
    /\ Len(wOutbox) >= 5
    /\ wOutbox = Messages(wActions)

\* the body of the delivery is none the worker's job type can be read from
Malformed(worker, body) ==
    CASE worker = "evaluation-filter"     -> ParsePullRequestEvent(body) = DecodeError
      [] worker = "github-comment-filter" -> ParseIssueComment(body) = DecodeError
      [] worker = "stats"                 ->
            ParseEventMessage(body) = DecodeError
            /\ ParseLegacyEvent(body) = DecodeError
      [] worker = "mass-rebuilder"        -> ParseEvaluationJob(body) = DecodeError
      [] OTHER                            -> FALSE

\* C3: once msg_to_job has run on a malformed body it has returned Err, and
\* the delivery is settled with one NackDump and nothing else.
C3_MalformedIsNackDump ==
    wPhase \notin {"idle", "delivered"} /\ Malformed(wWorker, wBody)
        => /\ wDecoded = "err"
           /\ wSettled = <<Settled(NackDump, "loop")>>
           /\ wOutbox = <<>>

\* the same of the workers other than the comment filter
C3_OtherWorkers ==
    wWorker # "github-comment-filter" => C3_MalformedIsNackDump

\* the evaluation filter's consumer has returned
FilterConsumed ==
    /\ wWorker = "evaluation-filter"
    /\ wJob # <<>>
    /\ wPhase # "decoded"

\* the action is Opened, Synchronize, Reopened, or Edited with a base change
InterestingAction(job) ==
    \/ job.action \in {"Opened", "Synchronize", "Reopened"}
    \/ /\ job.action = "Edited"
       /\ job.changes # <<>>
       /\ job.changes[1].base # <<>>

\* C9: when the repository of the event is not in the ACL's repo set, or the
\* pull request is not Open, or the action is not an interesting one, the
\* evaluation filter returns the single action Ack, whatever the other two
\* conditions are.
C9_DropsAreAckOnly ==
    FilterConsumed =>
        LET job == wJob[1]
        IN  (\/ ToLowercase(job.repository.full_name) \notin AclRepos
             \/ job.pull_request.state # "Open"
             \/ ~InterestingAction(job))
            => wActions = <<Ack>>

\* Synchronize on a closed pull request of a listed repository: Ack only
C9_Witness ==
    /\ FilterConsumed
    /\ wJob[1].action = "Synchronize"
    /\ wJob[1].pull_request.state = "Closed"
    /\ wJob[1].repository.full_name = "NixOS/nixpkgs"
    /\ wActions = <<Ack>>

\* C10: for an Edited event on an open pull request of a listed repository
\* the evaluation filter returns one Publish and then Ack when changes.base
\* is present, and Ack alone when changes is absent or has no base.
C10_EditedNeedsBase ==
    FilterConsumed =>
        LET job == wJob[1]
        IN  (/\ job.action = "Edited"
             /\ job.pull_request.state = "Open"
             /\ ToLowercase(job.repository.full_name) \in AclRepos)
            => IF job.changes # <<>> /\ job.changes[1].base # <<>>
               THEN /\ Len(wActions) = 2
                    /\ IsPublish(wActions[1])
                    /\ wActions[1].msg.routing_key = "mass-rebuild-check-jobs"
                    /\ wActions[2] = Ack
               ELSE wActions = <<Ack>>

\* an edit that changed the title only has been acked without a publish, the
\* changes being present
C10_Witness ==
    /\ FilterConsumed
    /\ wJob[1].action = "Edited"
    /\ wJob[1].pull_request.state = "Open"
    /\ wJob[1].repository.full_name = "NixOS/nixpkgs"
    /\ wJob[1].changes # <<>>
    /\ wJob[1].changes[1].base = <<>>
    /\ wActions = <<Ack>>

\* the event passes the three checks of the evaluation filter
Survives(job) ==
    /\ ToLowercase(job.repository.full_name) \in AclRepos
    /\ job.pull_request.state = "Open"
    /\ InterestingAction(job)

\* C11: for an event that passes the filter the consumer returns two
\* actions: a Publish with routing key mass-rebuild-check-jobs, no exchange
\* and content type application/json, whose body reads back as the
\* EvaluationJob with the repository of the event and the pull request
\* number, head sha and base ref of the event, and then Ack.
C11_SurvivorIsPublishedThenAcked ==
    FilterConsumed /\ Survives(wJob[1]) =>
        LET job == wJob[1]
        IN  /\ Len(wActions) = 2
            /\ IsPublish(wActions[1])
            /\ wActions[1].msg.routing_key = "mass-rebuild-check-jobs"
            /\ wActions[1].msg.exchange = None
            /\ wActions[1].msg.content_type = "application/json"
            /\ ParseEvaluationJob(wActions[1].msg.content) =
                  [repo |-> [owner     |-> job.repository.owner.login,
                             name      |-> job.repository.name,
                             full_name |-> job.repository.full_name,
                             clone_url |-> job.repository.clone_url],
                   pr   |-> [number        |-> job.number,
                             head_sha      |-> job.pull_request.head.sha,
                             target_branch |-> <<job.pull_request.base.git_ref>>]]
            /\ wActions[2] = Ack

\* an Opened event on an open pull request of NixOS/nixpkgs was consumed
C11_Witness ==
    /\ FilterConsumed
    /\ Survives(wJob[1])
    /\ wJob[1].action = "Opened"
    /\ Len(wActions) = 2
    /\ wActions[1].msg.content = SerializeEvaluationJob(
          [repo |-> [owner |-> "NixOS", name |-> "nixpkgs",
                     full_name |-> "NixOS/nixpkgs",
                     clone_url |-> "https://github.com/NixOS/nixpkgs.git"],
           pr   |-> [number |-> "33299", head_sha |-> "887e8b",
                     target_branch |-> <<"staging">>]])

\* the evaluator's worker_actions has returned
Evaluated ==
    /\ wWorker = "mass-rebuilder"
    /\ wPhase \in {"dispatching", "settled"}
    /\ oneEval.pc = "returned"

\* the statuses of seq written to context, in order
RECURSIVE StatusesOf(_, _)
StatusesOf(seq, context) ==
    IF seq = <<>> THEN <<>>
    ELSE (IF Head(seq).context = context THEN <<Head(seq)>> ELSE <<>>)
         \o StatusesOf(Tail(seq), context)

\* the statuses the job wrote to <prefix>-eval
OverallStatuses == StatusesOf(github.statuses, oneEval.prefix \o "-eval")

TerminalStates == {"Success", "Failure", "Error"}

\* the list worker_actions returned ends with Ack
Acks == wActions # <<>> /\ wActions[Len(wActions)] = Ack

\* C12: when the evaluator returns a list ending with Ack and has written a
\* status to <prefix>-eval, the last status it wrote there is Success,
\* Failure or Error; and when a status write failed with expired credentials
\* or an internal error of the forge it returns NackRequeue and no Ack.
C12_NoAckWhileUndetermined ==
    Evaluated =>
        /\ Acks /\ github.seen /\ OverallStatuses # <<>>
              => OverallStatuses[Len(OverallStatuses)].state \in TerminalStates
        /\ oneEval.result \in {"ExpiredCreds", "InternalError"}
              => wActions = <<NackRequeue>>

\* the second half of C12 alone: a transient failure requeues
C12_TransientRequeues ==
    Evaluated /\ oneEval.result \in {"ExpiredCreds", "InternalError"}
        => wActions = <<NackRequeue>>

\* the contexts <prefix>-eval of the two prefixes
OverallContexts == {"ofborg-eval", "grahamcofborg-eval"}

\* the place of a Pending description in the order of the state machine, 0
\* for a description that is none of the seven
Rank(description) ==
    CASE description = "Starting"                    -> 1
      [] description = "Cloning project"             -> 2
      [] StartsWith(description, "Checking out ")    -> 3
      [] description = "Fetching PR"                 -> 4
      [] description = "Merging PR"                  -> 5
      [] description = "Beginning Evaluations"       -> 6
      [] description = "Calculating Changed Outputs" -> 7
      [] OTHER                                       -> 0

\* C13: of the statuses one job writes to <prefix>-eval, the Pending ones
\* described Starting, Cloning project, Checking out <branch>, Fetching PR,
\* Merging PR, Beginning Evaluations, Calculating Changed Outputs come in
\* that order, none twice; and a Success, Failure or Error written there is
\* the last status the job writes at all.
C13_StatusOrder ==
    github.seen =>
        LET w == github.statuses
        IN  /\ \A i, j \in 1..Len(w) :
                  /\ i < j
                  /\ w[i].context \in OverallContexts
                  /\ w[j].context \in OverallContexts
                  /\ w[i].state = "Pending" /\ w[j].state = "Pending"
                  /\ Rank(w[i].description) > 0 /\ Rank(w[j].description) > 0
                  => Rank(w[i].description) < Rank(w[j].description)
            /\ \A i \in 1..Len(w) :
                  w[i].context \in OverallContexts /\ w[i].state \in TerminalStates
                  => i = Len(w)

\* a job on nixpkgs went through all seven and ended with Success
C13_Witness ==
    /\ Evaluated
    /\ github.seen
    /\ Len(OverallStatuses) = 10
    /\ \A r \in 1..7 : \E i \in 1..Len(OverallStatuses) :
          Rank(OverallStatuses[i].description) = r
    /\ OverallStatuses[10].state = "Success"

\* the job the evaluator is working on targets a channel mirror and
\* evaluate_job returned its actions
MirrorRefused ==
    /\ Evaluated
    /\ github.seen
    /\ IsMirror(TargetBranch(wJob[1]))
    /\ oneEval.result = "Actions"

\* C14: a job whose target branch starts with nixos- or nixpkgs- writes
\* exactly two statuses, one Pending and then the Error of the channel
\* mirror, publishes no build and is acked.
C14_MirrorWritesTwoStatuses ==
    MirrorRefused =>
        /\ Len(github.statuses) = 2
        /\ github.statuses[1].state = "Pending"
        /\ github.statuses[2].state = "Error"
        /\ wActions = <<Ack>>

\* what evaluate_job does with such a job: Starting and Cloning project are
\* written before the branch is looked at, the Error is the third status
C14_MirrorWritesThreeStatuses ==
    MirrorRefused =>
        /\ Len(github.statuses) = 3
        /\ github.statuses[1].description = "Starting"
        /\ github.statuses[2].description = "Cloning project"
        /\ github.statuses[1].state = "Pending"
        /\ github.statuses[2].state = "Pending"
        /\ github.statuses[3].state = "Error"
        /\ StartsWith(github.statuses[3].description,
                      "The branch you have targeted is a read-only mirror")
        /\ wActions = <<Ack>>

\* the prefix a status context was written with
PrefixOf(context) ==
    IF StartsWith(context, "grahamcofborg-") THEN "grahamcofborg" ELSE "ofborg"

\* C15: every status one job writes has its context under one and the same
\* prefix, <prefix>-eval or <prefix>-eval-<check>, the Failure written by
\* update_status included, whatever other actors add to the head commit
\* while the job runs.
C15_OnePrefixPerJob ==
    github.seen =>
        \A i, j \in 1..Len(github.statuses) :
            PrefixOf(github.statuses[i].context)
                = PrefixOf(github.statuses[j].context)

\* what holds: the statuses evaluate_job and the strategy write, all but
\* the one of update_status, are under the prefix chosen at the start
C15_EvaluateJobKeepsPrefix ==
    github.seen /\ oneEval.pc \notin {"none", "returned"} =>
        \A i \in 1..Len(github.statuses) :
            PrefixOf(github.statuses[i].context) = oneEval.prefix

\* the Publish actions of a list
Publishes(actions) == SelectSeq(actions, IsPublish)

C16_WitnessRequeue ==
    /\ Evaluated
    /\ oneEval.result = "ExpiredCreds"
    /\ github.seen
    /\ github.statuses # <<>>

\* evaluate_job ended with Fail or FailWithGist and update_status reported it
FailureReported ==
    /\ Evaluated
    /\ github.seen
    /\ oneEval.error # <<>>
    /\ oneEval.error[1].kind \in {"Fail", "FailWithGist"}
    /\ oneEval.result = "Ok"

UnexpectedError ==
    /\ Evaluated
    /\ github.seen
    /\ oneEval.result = "Error"

\* C18: after such an error the job has written the status Error, the pull
\* request carries the label ofborg-internal-error, and the job is acked.
C18_ErrorStatusLabelAck ==
    UnexpectedError =>
        /\ \E i \in 1..Len(github.statuses) : github.statuses[i].state = "Error"
        /\ SeqContains(github.labels, "ofborg-internal-error")
        /\ wActions = <<Ack>>

\* what worker_actions does: the label and the Ack, and no status at all
C18_LabelAndAckOnly ==
    UnexpectedError =>
        /\ \A i \in 1..Len(github.statuses) : github.statuses[i].state # "Error"
        /\ SeqContains(github.labels, "ofborg-internal-error")
        /\ wActions = <<Ack>>

\* the evaluation passed: the builds were scheduled, ^.^! was written and
\* evaluate_job returned done(job, response)
FanOut ==
    /\ Evaluated
    /\ github.seen
    /\ oneEval.result = "Actions"
    /\ github.statuses # <<>>
    /\ github.statuses[Len(github.statuses)].state = "Success"
    /\ github.statuses[Len(github.statuses)].context \in OverallContexts

\* the positions of actions at which a message with this destination and
\* content is published
PublishedAt(actions, exchange_, routing_key, content) ==
    {i \in 1..Len(actions) :
        /\ IsPublish(actions[i])
        /\ actions[i].msg.exchange = exchange_
        /\ actions[i].msg.routing_key = routing_key
        /\ actions[i].msg.content = content}

\* the jobs the strategy queued, request_id being the identifier it drew
QueuedBy(request_id) ==
    IF oneEval.strategy = "nixpkgs"
    THEN queue_builds(wJob[1], oneEval.touched, request_id)
    ELSE <<>>

\* C19: with build jobs B and architectures A, the actions of an evaluation
\* that reaches the fan-out hold each job of B exactly once for the build
\* destination of each architecture of A and exactly once, as
\* QueuedBuildJobs{job, architectures}, for build-results; these
\* |B| * (|A| + 1) publishes are all the actions before the final Ack.
C19_FanOut ==
    FanOut =>
        \E request_id \in {"uuid-1", "uuid-2"} :
            LET B == QueuedBy(request_id)
                A == oneEval.archs
            IN  /\ \A b \in 1..Len(B) :
                      /\ \A a \in 1..Len(A) :
                            Cardinality(PublishedAt(wActions, None,
                                "build-inputs-" \o A[a],
                                SerializeBuildJob(B[b]))) = 1
                      /\ Cardinality(PublishedAt(wActions, "build-results", None,
                            SerializeQueuedBuildJobs(B[b], A))) = 1
                /\ Len(wActions) = Len(B) * (Len(A) + 1) + 1
                /\ \A i \in 1..(Len(wActions) - 1) : IsPublish(wActions[i])
                /\ wActions[Len(wActions)] = Ack

\* one job fanned out to all four architectures
C19_Witness ==
    /\ FanOut
    /\ Len(oneEval.archs) = 4
    /\ Len(wActions) = 6

\* the touched packages of the job, each once, sorted
DistinctTouched ==
    IF oneEval.touched = <<>> THEN <<>> ELSE Dedup(Sort(oneEval.touched[1]))

\* the QueuedBuildJobs records among the job's actions, one for each build
\* job the strategy emitted
EmittedBuilds ==
    SelectSeq(wActions,
              LAMBDA a : IsPublish(a) /\ a.msg.exchange = "build-results")

\* a job on nixpkgs whose evaluation passed
NixpkgsFanOut == FanOut /\ oneEval.strategy = "nixpkgs"

\* the one job emitted has the sorted list of pkg and pkg.passthru.tests of
\* every touched package as its attrs
AttrsOfTouched ==
    \E request_id \in {"uuid-1", "uuid-2"} :
        EmittedBuilds[1].msg.content =
            SerializeQueuedBuildJobs(
                BuildJob(wJob[1].repo, wJob[1].pr, "Nixpkgs",
                         Dedup(Sort(WithTests(DistinctTouched))), request_id),
                oneEval.archs)

\* C20: exactly one build job is emitted if and only if the touched
\* packages, each counted once, are between 1 and 20; its attrs are then
\* the sorted list of pkg and pkg.passthru.tests without repetition. With
\* none or with 21 or more no job is emitted.
C20_OneBuildIffUpTo20Packages ==
    NixpkgsFanOut =>
        /\ Len(EmittedBuilds) = 1 <=> Len(DistinctTouched) \in 1..20
        /\ Len(EmittedBuilds) = 1 => AttrsOfTouched
        /\ Len(DistinctTouched) \notin 1..20 => EmittedBuilds = <<>>

\* what queue_builds does: the 20 are counted on the attrs, two for each
\* package
C20_OneBuildIffUpTo20Attrs ==
    NixpkgsFanOut =>
        /\ Len(EmittedBuilds) = 1
              <=> Len(Dedup(Sort(WithTests(DistinctTouched)))) \in 1..20
        /\ Len(EmittedBuilds) = 1 => AttrsOfTouched
        /\ Len(EmittedBuilds) \in {0, 1}

\* eleven packages touched, no build
C20_ElevenPackages ==
    /\ NixpkgsFanOut
    /\ Len(DistinctTouched) = 11
    /\ EmittedBuilds = <<>>

\* the pull request is work in progress: [WIP] in the title, WIP: at its
\* start, or a label that says so, in whatever letter case
WorkInProgress(issue) ==
    \/ Contains(issue.title, "[WIP]")
    \/ StartsWith(issue.title, "WIP:")
    \/ \E i \in 1..Len(issue.labels) :
          \/ Contains(ToLowercase(issue.labels[i]), "work in progress")
          \/ Contains(ToLowercase(issue.labels[i]), "work-in-progress")

\* the architectures to whose build destination the job's actions publish
BuildDestinations ==
    {a \in {Systems[i] : i \in 1..Len(Systems)} :
        \E i \in 1..Len(wActions) :
            /\ IsPublish(wActions[i])
            /\ wActions[i].msg.routing_key = "build-inputs-" \o a}

\* C21: the job of a work-in-progress pull request is evaluated but
\* publishes to no build destination; otherwise the architectures builds are
\* scheduled on are those the ACL allows the author on the repository, and
\* a job that emits a build publishes it to each of them and to no other.
C21_WipSchedulesNoBuild ==
    Evaluated /\ github.seen =>
        LET issue == oneEval.issue[1]
            allowed == build_job_architectures_for_user_repo(
                           issue.user.login, wJob[1].repo.full_name)
        IN  IF WorkInProgress(issue)
            THEN oneEval.archs = <<>> /\ BuildDestinations = {}
            ELSE /\ oneEval.archs = allowed
                 /\ BuildDestinations \subseteq Range(allowed)
                 /\ FanOut /\ EmittedBuilds # <<>>
                       => BuildDestinations = Range(allowed)

\* a pull request marked by a label was evaluated to the end, its build job
\* recorded for build-results and sent to no builder
C21_Witness ==
    /\ FanOut
    /\ WorkInProgress(oneEval.issue[1])
    /\ oneEval.issue[1].labels # <<>>
    /\ EmittedBuilds # <<>>
    /\ BuildDestinations = {}

\* a pull request that is not work in progress, built on every system
C21_WitnessAllowed ==
    /\ FanOut
    /\ ~WorkInProgress(oneEval.issue[1])
    /\ Cardinality(BuildDestinations) = 4

\* both package_diff and calculate_rebuild have returned Some for the two
\* evaluations OutPathDiff holds
BothDiffed ==
    /\ diffed.called = {"package_diff", "calculate_rebuild"}
    /\ diffed.diff # <<>>
    /\ diffed.rebuild # <<>>

\* C22: whatever the out paths before and after, what calculate_rebuild
\* returns shares no PackageArch with what package_diff returns as added or
\* as removed.
C22_RebuildDisjointFromDiff ==
    BothDiffed =>
        Range(diffed.rebuild[1])
            \cap (Range(diffed.diff[1].added) \cup Range(diffed.diff[1].removed))
          = {}

\* what holds: nothing removed is rebuilt, and everything added is
C22_AddedAreRebuilt ==
    BothDiffed =>
        /\ Range(diffed.rebuild[1]) \cap Range(diffed.diff[1].removed) = {}
        /\ Range(diffed.diff[1].added) \subseteq Range(diffed.rebuild[1])

\* C23: package_diff returns as removed the keys of before that after has
\* not and as added the keys of after that before has not, each once; no key
\* is both added and removed.
C23_PackageDiff ==
    "package_diff" \in diffed.called /\ diffed.diff # <<>> =>
        LET before  == DOMAIN outPathDiff.original[1]
            after   == DOMAIN outPathDiff.current[1]
            removed == diffed.diff[1].removed
            added   == diffed.diff[1].added
        IN  /\ Range(removed) = before \ after
            /\ Range(added) = after \ before
            /\ Len(removed) = Cardinality(Range(removed))
            /\ Len(added) = Cardinality(Range(added))
            /\ Range(added) \cap Range(removed) = {}

\* one key went away, one came, one stayed
C23_Witness ==
    /\ "package_diff" \in diffed.called
    /\ diffed.diff # <<>>
    /\ Len(diffed.diff[1].removed) = 1
    /\ Len(diffed.diff[1].added) = 1
    /\ DOMAIN outPathDiff.original[1] \cap DOMAIN outPathDiff.current[1] # {}

\* how often key occurs in seq
Occurrences(seq, key) == Cardinality({i \in 1..Len(seq) : seq[i] = key})

\* C24: a PackageArch of the evaluation after whose out path is not the one
\* it had before is in what calculate_rebuild returns exactly once; one
\* whose out path is the same before and after is not in it.
C24_RebuildIsChanged ==
    "calculate_rebuild" \in diffed.called /\ diffed.rebuild # <<>> =>
        LET before == outPathDiff.original[1]
            after  == outPathDiff.current[1]
        IN  \A key \in DOMAIN before \cap DOMAIN after :
               IF after[key] # before[key]
               THEN Occurrences(diffed.rebuild[1], key) = 1
               ELSE Occurrences(diffed.rebuild[1], key) = 0

\* of two attributes both evaluations have, one changed and one did not
C24_Witness ==
    /\ "calculate_rebuild" \in diffed.called
    /\ diffed.rebuild # <<>>
    /\ \E k1, k2 \in DOMAIN outPathDiff.original[1] \cap DOMAIN outPathDiff.current[1] :
          /\ outPathDiff.original[1][k1] # outPathDiff.current[1][k1]
          /\ outPathDiff.original[1][k2] = outPathDiff.current[1][k2]

\* parse_attrs has run
Parsed == rebuildTagger.parsed # <<>>

\* the labels of all buckets of both architectures
BucketUniverse ==
    {RebuildLabel(kind, Buckets[i]) : kind \in {"linux", "darwin"},
                                      i \in 1..Len(Buckets)}

\* C25: whatever the two counts, tags_to_add and tags_to_remove share no
\* label, and together they are all the bucket labels of linux and darwin.
C25_AddAndRemovePartition ==
    Parsed =>
        /\ Range(tags_to_add(rebuildTagger))
              \cap Range(tags_to_remove(rebuildTagger)) = {}
        /\ Range(tags_to_add(rebuildTagger))
              \cup Range(tags_to_remove(rebuildTagger)) = BucketUniverse

\* 501 on linux and none on darwin: three labels to add, seventeen to remove
C25_Witness ==
    /\ Parsed
    /\ rebuildTagger.parsed[1] = [linux |-> 501, darwin |-> 0]
    /\ Len(tags_to_add(rebuildTagger)) = 3
    /\ Len(tags_to_remove(rebuildTagger)) = 17

\* the band that holds count c, 0 having none
BandOf(c) ==
    CASE c = 0                   -> <<>>
      [] c \in 1..10             -> <<"1-10">>
      [] c \in 11..100           -> <<"11-100">>
      [] c \in 101..500          -> <<"101-500">>
      [] c \in 501..1000         -> <<"501-1000">>
      [] c \in 1001..2500        -> <<"1001-2500">>
      [] c \in 2501..5000        -> <<"2501-5000">>
      [] OTHER                   -> <<"5001+">>

\* the labels the claim gives count c on architecture kind
ClaimedLabels(kind, c) ==
    {RebuildLabel(kind, b) :
        b \in (IF c = 0 THEN {"0"} ELSE {})
              \cup (IF c = 1 THEN {"1"} ELSE {})
              \cup Range(BandOf(c))
              \cup (IF c > 500 THEN {"501+"} ELSE {})}

\* C26: for each architecture with count c the labels added are 0 iff
\* c = 0, 1 iff c = 1, the one band among 1-10, 11-100, 101-500, 501-1000,
\* 1001-2500, 2501-5000, 5001+ that holds c iff c >= 1, and 501+ iff
\* c > 500, each edge falling into the band it closes or opens.
C26_BucketsOfCount ==
    Parsed =>
        Range(tags_to_add(rebuildTagger))
          = ClaimedLabels("linux", rebuildTagger.parsed[1].linux)
            \cup ClaimedLabels("darwin", rebuildTagger.parsed[1].darwin)

\* what the repository's test expects of the counts it tries
C26_AsTested ==
    Parsed /\ rebuildTagger.parsed[1].linux \in DOMAIN test_packages_changed
           /\ rebuildTagger.parsed[1].darwin = rebuildTagger.parsed[1].linux =>
        LET expected == test_packages_changed[rebuildTagger.parsed[1].linux]
        IN  tags_to_add(rebuildTagger)
              = [i \in 1..Len(expected) |-> RebuildLabel("darwin", expected[i])]
                \o [i \in 1..Len(expected) |-> RebuildLabel("linux", expected[i])]

\* the edge at 500 and 501, one on each architecture
C26_Witness ==
    /\ Parsed
    /\ rebuildTagger.parsed[1] = [linux |-> 500, darwin |-> 501]
    /\ tags_to_add(rebuildTagger) =
          <<"10.rebuild-darwin: 501+", "10.rebuild-darwin: 501-1000",
            "10.rebuild-linux: 101-500">>

\* record_maintainer has run
Recorded == maintainerTagger.recorded # <<>>

\* two logins that differ in letter case at most
SamePerson(a, b) == ToLowercase(a) = ToLowercase(b)

\* C27: the label 11.by: package-maintainer is selected if and only if the
\* map of maintainers by package is not empty and every package in it
\* lists the submitter among its maintainers, letter case set aside.
C27_ByMaintainerIffListed ==
    Recorded =>
        LET r == maintainerTagger.recorded[1]
        IN  maintainerTagger.selected = <<"11.by: package-maintainer">>
              <=> /\ DOMAIN r.identified_maintainers # {}
                  /\ \A package \in DOMAIN r.identified_maintainers :
                        \E m \in r.identified_maintainers[package] :
                            SamePerson(m, r.pr_submitter)

\* what holds: the submitter's login is put in lower case, the listed ones
\* are taken as they are written
C27_ByMaintainerIffListedLowercase ==
    Recorded =>
        LET r == maintainerTagger.recorded[1]
        IN  /\ maintainerTagger.selected \in {<<>>, <<"11.by: package-maintainer">>}
            /\ maintainerTagger.selected = <<"11.by: package-maintainer">>
                 <=> /\ DOMAIN r.identified_maintainers # {}
                     /\ \A package \in DOMAIN r.identified_maintainers :
                           ToLowercase(r.pr_submitter)
                              \in r.identified_maintainers[package]

\* the submitter written with a capital, the maintainers in lower case
C27_CapitalSubmitter ==
    /\ Recorded
    /\ maintainerTagger.recorded[1].pr_submitter = "Alice"
    /\ maintainerTagger.selected = <<"11.by: package-maintainer">>

-----------------------------------------------------------------------------
(* The label of a merge conflict.                                          *)

MergeConflict == "2.status: merge conflict"

\* a job of the package repository whose requests of the forge were all
\* answered so far
NixpkgsAnswered ==
    /\ wWorker = "mass-rebuilder"
    /\ oneEval.pc # "none"
    /\ oneEval.strategy = "nixpkgs"
    /\ github.seen
    /\ ~github.panicked

\* the forge was asked to add (op = "add") or to remove (op = "remove") label
Requested(op, label) ==
    \E i \in 1..Len(github.label_calls) :
        /\ github.label_calls[i].op = op
        /\ SeqContains(github.label_calls[i].labels, label)

\* the issue as the job found it carried label
Fetched(label) == SeqContains(oneEval.issue[1].labels, label)

\* merge_conflict or after_merge has returned
MergeLabelled ==
    \/ oneEval.merged = "ok"
       /\ oneEval.pc \notin {"after_merge"}
    \/ oneEval.merged = "conflict"
       /\ oneEval.pc \notin {"failed_to_merge", "merge_conflict", "failed"}
       /\ oneEval.error = <<>>

C28_WitnessConflict ==
    /\ NixpkgsAnswered
    /\ Evaluated
    /\ oneEval.merged = "conflict"
    /\ ~Fetched(MergeConflict)
    /\ SeqContains(github.labels, MergeConflict)

-----------------------------------------------------------------------------
(* update_labels, checked under SpecUpdateLabels.                          *)

\* the positions of the requests of one kind
RequestsOf(op) ==
    {i \in 1..Len(github.label_calls) : github.label_calls[i].op = op}

\* the label of each single remove, in the order of the requests
Removed ==
    [i \in 1..(Len(github.label_calls) - 2) |->
        github.label_calls[i + 2].labels[1]]

\* C29: update_labels(add, remove) fetches the issue once; if the fetch is
\* answered it sends one bulk add, of the labels of add the fetched issue
\* has not, and then, the add answered, one remove of a single label for
\* each label of remove the fetched issue has, in their order: no label
\* the issue has is added, no label it has not is removed.
C29_UpdateLabels ==
    github.seen /\ github.label_calls # <<>> =>
        LET calls   == github.label_calls
            fetched == calls[1].labels
            asked   == calls[1].asked
            absent(l)  == ~SeqContains(fetched, l)
            present(l) == SeqContains(fetched, l)
        IN  /\ RequestsOf("get") = {1}
            /\ ~calls[1].ok => Len(calls) = 1 /\ github.panicked
            /\ calls[1].ok =>
                  /\ RequestsOf("add") = {2}
                  /\ calls[2].labels = SelectSeq(asked.add, absent)
                  /\ \A l \in Range(calls[2].labels) : ~SeqContains(fetched, l)
                  /\ ~calls[2].ok => Len(calls) = 2 /\ github.panicked
                  /\ RequestsOf("remove") = 3..Len(calls)
                  /\ \A i \in RequestsOf("remove") :
                        /\ Len(calls[i].labels) = 1
                        /\ SeqContains(fetched, calls[i].labels[1])
                  /\ ~github.panicked =>
                        Removed = SelectSeq(asked.remove, present)

\* a call is over that was asked to add a label the issue had and one it
\* had not, and to remove a label the issue had and one it had not
C29_Witness ==
    /\ github.seen
    /\ ~github.panicked
    /\ Len(github.label_calls) = 3
    /\ LET calls == github.label_calls
       IN  /\ Len(calls[1].asked.add) = 2
           /\ Len(calls[1].asked.remove) = 2
           /\ Len(calls[2].labels) = 1
           /\ calls[3].op = "remove"

\* a call is over that sent two removes
C29_WitnessTwoRemoves ==
    /\ github.seen
    /\ ~github.panicked
    /\ Len(github.label_calls) = 4
    /\ github.label_calls[3].labels # github.label_calls[4].labels

-----------------------------------------------------------------------------
(* A job delivered again.                                                  *)

\* a job is over, the forge answered it, and nobody else wrote a status
\* with the old prefix after the job listed the statuses: what the forge
\* holds is what the job found and what the job wrote
Replayable ==
    /\ Evaluated
    /\ github.seen
    /\ ~github.panicked
    /\ oneEval.prefix # ""
    /\ ~(oneEval.prefix = "ofborg" /\ github.legacy)

\* the issue as a second delivery fetches it: the labels are those the
\* first one left
IssueAsLeft == [oneEval.issue[1] EXCEPT !.labels = github.labels]

\* auto_schedule_build_archs of the second delivery (lines 285-294)
ReplayArchs ==
    IF issue_is_wip(IssueAsLeft) THEN <<>>
    ELSE build_job_architectures_for_user_repo(IssueAsLeft.user.login,
                                               wJob[1].repo.full_name)

\* the request ids Uuid::new_v4 may draw
ReplayIds == {"uuid-1", "uuid-2"}

\* the build jobs with another request id
WithRequestId(builds, request_id) ==
    [i \in 1..Len(builds) |-> [builds[i] EXCEPT !.request_id = request_id]]

-----------------------------------------------------------------------------
(* The log read API, checked under SpecLogApi.                             *)

\* dir is at or below ancestor
Inside(ancestor, dir) ==
    Len(dir) >= Len(ancestor) /\ SubSeq(dir, 1, Len(ancestor)) = ancestor

\* C31: whenever a GET of /logs/<sub-path> is answered 200, the directory
\* that was read, in its canonical form, is logs_path or lies below it.
C31_ReadsInsideLogsPath ==
    logApi.seen /\ logApi.res.status = 200 =>
        /\ logApi.read # <<>>
        /\ Inside(LogsDir, logApi.read[1])

\* what holds: a 200 is the listing of some directory of the machine, the
\* one the sub-path leads to from logs_path or, if it starts with a slash,
\* from the root
C31_ReadsSomeDirectory ==
    logApi.seen /\ logApi.res.status = 200 =>
        /\ logApi.read # <<>>
        /\ logApi.read[1] \in Dirs

\* a listing from outside logs_path was served
C31_ServedFromOutside ==
    /\ logApi.seen
    /\ logApi.res.status = 200
    /\ logApi.read = <<<<"etc">>>>
    /\ "passwd" \in DOMAIN logApi.res.attempts

\* the name is one of the JSON files of an attempt
IsAttemptJson(file_name) ==
    EndsWith(file_name, ".metadata.json") \/ EndsWith(file_name, ".result.json")

\* a regular file whose name is not text, or that should be JSON and is
\* not, or whose JSON has no string attempt_id, or that cannot be opened
Skipped(e) ==
    /\ e.stat = "file"
    /\ \/ e.name = <<>>
       \/ /\ IsAttemptJson(e.name[1])
          /\ \/ e.json = <<>>
             \/ e.json[1].attempt_id.type # "string"
             \/ ~e.opens

\* a directory was read and everything in it is a regular file
OnlyRegularFiles ==
    /\ logApi.seen
    /\ logApi.read # <<>>
    /\ \A e \in Range(logApi.iter) : e.kind = "file"

\* and the metadata of each could be read
OnlyReadableFiles ==
    /\ OnlyRegularFiles
    /\ \A e \in Range(logApi.iter) : e.stat = "file"

\* some entry that is not skipped gives the attempt a its field
Contributed(a, field) ==
    \E e \in Range(logApi.iter) :
        /\ e.stat = "file"
        /\ ~Skipped(e)
        /\ IF field = "log_url"
           THEN ~IsAttemptJson(e.name[1]) /\ e.name[1] = a
           ELSE /\ EndsWith(e.name[1], "." \o field \o ".json")
                /\ e.json[1].attempt_id.text = a
                /\ logApi.res.attempts[a][field] = e.json

\* C32: a directory holding regular files only is answered 200, whatever
\* the files are: those whose name is not text, that should be JSON and
\* are not, or whose JSON has no string attempt_id never make it a 5xx.
C32_RegularFilesGive200 ==
    OnlyRegularFiles => logApi.res.status = 200

\* C32 as it holds: a directory holding only regular files whose metadata
\* can be read is answered 200, whatever the files are: one whose name is
\* not text, one that should be JSON and is not, one whose JSON has no
\* string attempt_id are passed over, and every field of every attempt of
\* the response comes from a file that is none of these.
C32_SkippedFilesAreHarmless ==
    OnlyReadableFiles =>
        /\ logApi.res.status = 200
        /\ \A a \in DOMAIN logApi.res.attempts :
              LET attempt == logApi.res.attempts[a]
              IN  /\ attempt # DefaultAttempt
                  /\ attempt.metadata # <<>> => Contributed(a, "metadata")
                  /\ attempt.result # <<>> => Contributed(a, "result")
                  /\ attempt.log_url # <<>> => Contributed(a, "log_url")

\* the three kinds of skipped file in one directory, and an empty answer
C32_Witness ==
    /\ OnlyReadableFiles
    /\ \E e \in Range(logApi.iter) : e.name = <<>>
    /\ \E e \in Range(logApi.iter) : e.name = <<"bad.metadata.json">>
    /\ \E e \in Range(logApi.iter) :
          e.name # <<>> /\ e.json # <<>> /\ e.json[1].attempt_id.type # "string"
    /\ logApi.res.status = 200
    /\ DOMAIN logApi.res.attempts = {}

\* a file whose metadata cannot be read is taken for a directory
C32_UnreadableMetadata ==
    /\ OnlyRegularFiles
    /\ \E e \in Range(logApi.iter) : e.stat = "error"
    /\ logApi.res.status = 500

\* "metadata" or "result", after the name of a JSON file of an attempt
FieldOf(file_name) ==
    IF EndsWith(file_name, ".metadata.json") THEN "metadata" ELSE "result"

\* the entries that are read as the JSON of an attempt
ValidJson(e) ==
    /\ e.stat = "file" /\ e.name # <<>> /\ ~Skipped(e)
    /\ IsAttemptJson(e.name[1])

\* the entries that are taken for logs
RawLog(e) ==
    /\ e.stat = "file" /\ e.name # <<>>
    /\ ~IsAttemptJson(e.name[1])

\* e and f are for the same field of the same attempt
SameField(e, f) ==
    /\ FieldOf(e.name[1]) = FieldOf(f.name[1])
    /\ e.json[1].attempt_id.text = f.json[1].attempt_id.text

\* two files of the directory are for the same field of the same attempt
SameFieldTwice ==
    \E e \in Range(logApi.iter), f \in Range(logApi.iter) :
        e # f /\ ValidJson(e) /\ ValidJson(f) /\ SameField(e, f)

\* the response the handler gives when read_dir goes in another order
Listing(order) == Scan(order, logApi.reqd[1], NoAttempts)

\* the log_url of the raw file e is serve_root/sub-path/name
LogUrlSet(e) ==
    /\ e.name[1] \in DOMAIN logApi.res.attempts
    /\ logApi.res.attempts[e.name[1]].log_url =
          <<serve_root \o "/" \o logApi.reqd[1] \o "/" \o e.name[1]>>

\* C33: in every listing served, each valid *.metadata.json and
\* *.result.json is the metadata or the result of the attempt whose id it
\* holds, each other regular file f gives attempts[f].log_url =
\* serve_root/sub-path/f, the response is the same in whatever order the
\* directory is iterated, and a directory in the directory gives 500.
C33_ListingOfDirectory ==
    logApi.seen /\ logApi.read # <<>> =>
        /\ (\E e \in Range(logApi.iter) : e.kind = "dir") =>
              logApi.res.status = 500
        /\ logApi.res.status = 200 =>
              \A e \in Range(logApi.iter) :
                  /\ ValidJson(e) =>
                        LET a == e.json[1].attempt_id.text
                        IN  /\ a \in DOMAIN logApi.res.attempts
                            /\ logApi.res.attempts[a][FieldOf(e.name[1])] = e.json
                  /\ RawLog(e) => LogUrlSet(e)
        /\ \A order \in Orders(Range(logApi.iter)) : Listing(order) = logApi.res

\* C33 as it holds: of the files that are for the same field of the same
\* attempt the one iterated last is in the response, and the response is
\* the same in whatever order if no two files are.
C33_ListingOfDirectoryLastWins ==
    logApi.seen /\ logApi.read # <<>> =>
        /\ (\E e \in Range(logApi.iter) : e.kind = "dir") =>
              logApi.res.status = 500
        /\ logApi.res.status = 200 =>
              \A i \in 1..Len(logApi.iter) :
                  LET e == logApi.iter[i]
                  IN  /\ ValidJson(e) =>
                            LET a == e.json[1].attempt_id.text
                                later == \E j \in (i + 1)..Len(logApi.iter) :
                                            /\ ValidJson(logApi.iter[j])
                                            /\ SameField(e, logApi.iter[j])
                            IN  /\ a \in DOMAIN logApi.res.attempts
                                /\ ~later =>
                                      logApi.res.attempts[a][FieldOf(e.name[1])]
                                         = e.json
                      /\ RawLog(e) => LogUrlSet(e)
        /\ ~SameFieldTwice =>
              \A order \in Orders(Range(logApi.iter)) :
                  Listing(order) = logApi.res

\* one attempt with its metadata, its result and its log
C33_Witness ==
    /\ logApi.seen
    /\ logApi.res.status = 200
    /\ "a1" \in DOMAIN logApi.res.attempts
    /\ logApi.res.attempts["a1"].metadata # <<>>
    /\ logApi.res.attempts["a1"].result # <<>>
    /\ logApi.res.attempts["a1"].log_url
          = <<"https://logs.example.org/logfile/pr1/a1">>

\* a directory among the files
C33_WitnessDirectory ==
    /\ logApi.seen
    /\ logApi.read = <<AttemptsDir>>
    /\ Len(logApi.iter) = 3
    /\ logApi.iter[3].kind = "dir"
    /\ logApi.res.status = 500

-----------------------------------------------------------------------------
(* label_from_title, checked under SpecLabelFromTitle.                     *)

\* the whole words of a text: the longest runs of word characters, word
\* being the run that is open at the place i
RECURSIVE WordsFrom(_, _, _)
WordsFrom(text, i, word) ==
    IF i > Len(text) THEN (IF word = "" THEN {} ELSE {word})
    ELSE IF IsWordChar(CharAt(text, i))
    THEN WordsFrom(text, i + 1, word \o CharAt(text, i))
    ELSE (IF word = "" THEN {} ELSE {word}) \cup WordsFrom(text, i + 1, "")

WholeWords(text) == WordsFrom(text, 1, "")

\* the labels of the pairs whose word is among words, in the order of the
\* pairs
LabelsOfWords(words) ==
    LET Label(i) == IF TITLE_LABELS[i][1] \in words
                    THEN <<TITLE_LABELS[i][2]>> ELSE <<>>
    IN  Label(1) \o Label(2) \o Label(3) \o Label(4)

\* C34: label_from_title gives the label of each of the pairs bsd, darwin,
\* macos, cross whose word is a whole word of the title, and no other:
\* darwini: init and sigmacosine: init give none, fix on bsd and darwin
\* gives 6.topic: bsd and 6.topic: darwin, and cross-compilation gives the
\* label of cross.
C34_LabelsOfWholeWords ==
    titled.seen =>
        /\ titled.labels = LabelsOfWords(WholeWords(titled.title))
        /\ titled.title \in {"darwini: init", "sigmacosine: init"} =>
              titled.labels = <<>>
        /\ titled.title = "fix on bsd and darwin" =>
              titled.labels = <<"6.topic: bsd", "6.topic: darwin">>
        /\ titled.title = "cross-compilation" =>
              titled.labels = <<"6.topic: cross-compilation">>

\* two words of the title, two labels
C34_Witness ==
    /\ titled.seen
    /\ titled.title = "fix on bsd and darwin"
    /\ Len(titled.labels) = 2

\* a word inside a longer one gives nothing
C34_WitnessInside ==
    /\ titled.seen
    /\ titled.title = "sigmacosine: init"
    /\ titled.labels = <<>>

\* darwin and macos in one title: the label of each pair, twice the same
C34_WitnessTwice ==
    /\ titled.seen
    /\ titled.title = "darwin macos"
    /\ titled.labels = <<"6.topic: darwin", "6.topic: darwin">>

-----------------------------------------------------------------------------
(* Where the evaluator publishes.                                          *)

\* the last status the job wrote, if it wrote one
LastStatus == github.statuses[Len(github.statuses)]

\* the job ended with the status description as the last one it wrote
EndedWith(description) ==
    /\ github.seen
    /\ github.statuses # <<>>
    /\ LastStatus.context \in OverallContexts
    /\ LastStatus.description = description

\* some check of the job was given the status Failure
CheckFailed ==
    /\ github.seen
    /\ \E i \in 1..Len(github.statuses) :
          /\ github.statuses[i].context \notin OverallContexts
          /\ github.statuses[i].state = "Failure"

\* evaluate_job returned Done after every check passed
DoneAllPassed ==
    /\ oneEval.result = "Actions"
    /\ oneEval.error = <<>>
    /\ SeqContains(wNotified, "TaskEvaluationCheckComplete")
    /\ EndedWith("^.^!")
    /\ LastStatus.state = "Success"
    /\ ~CheckFailed
    /\ oneEval.merged = "ok"

\* C35: the actions of an evaluation hold a Publish only if evaluate_job
\* came to Done with every check passed; a job that ends on a closed
\* issue, a failed fetch of the issue, a channel mirror as target, a head
\* commit that is not there, a merge conflict, a failed check or a Fail of
\* the evaluation has actions without a Publish.
C35_PublishOnlyWhenDone ==
    Evaluated =>
        /\ Publishes(wActions) # <<>> => DoneAllPassed
        /\ \/ SeqContains(wNotified, "IssueAlreadyClosed")
           \/ SeqContains(wNotified, "IssueFetchFailed")
           \/ EndedWith(StatusSteps("master").mirror[1])
           \/ EndedWith("Commit not found")
           \/ github.seen /\ oneEval.merged = "conflict"
           \/ CheckFailed
           \/ github.seen /\ oneEval.error # <<>>
           => Publishes(wActions) = <<>>

\* packages were touched, the merge conflicted, nothing is published
C35_Witness ==
    /\ Evaluated
    /\ github.seen
    /\ oneEval.merged = "conflict"
    /\ oneEval.touched # <<>>
    /\ oneEval.touched[1] # <<>>
    /\ oneEval.archs # <<>>
    /\ wActions = <<Ack>>

\* the builds were scheduled and the last status could not be written
C35_WitnessLate ==
    /\ Evaluated
    /\ oneEval.response # <<>>
    /\ oneEval.error # <<>>
    /\ Publishes(wActions) = <<>>

\* the job came to Done and published
C35_WitnessDone ==
    /\ Evaluated
    /\ DoneAllPassed
    /\ Publishes(wActions) # <<>>

-----------------------------------------------------------------------------
(* The statuses of the evaluation checks.                                  *)

\* the evaluation of a job went through its checks without a panic
ChecksRun ==
    /\ Evaluated
    /\ github.seen
    /\ oneEval.strategy = "generic"
    /\ oneEval.pc = "returned"
    /\ \E i \in 1..Len(github.statuses) :
          /\ github.statuses[i].context \in OverallContexts
          /\ github.statuses[i].description = "Beginning Evaluations"

\* the states written to the context of a check, in order
CheckStates(check) ==
    LET written == StatusesOf(github.statuses,
                              oneEval.prefix \o "-eval-" \o check)
    IN  [i \in 1..Len(written) |-> written[i].state]

\* the position of the first check that was given Failure, or 0
FirstFailure ==
    LET failing == {i \in 1..Len(oneEval.checks) :
                       CheckStates(oneEval.checks[i]) = <<"Pending", "Failure">>}
    IN  IF failing = {} THEN 0
        ELSE CHOOSE i \in failing : \A j \in failing : i <= j

\* C36: every check of evaluation_checks() is executed once and is given
\* one Pending status followed by one Success or Failure status on its
\* own context, whether or not an earlier check of the list failed.
C36_EveryCheckRunOnce ==
    ChecksRun =>
        \A i \in 1..Len(oneEval.checks) :
            CheckStates(oneEval.checks[i]) \in
                {<<"Pending", "Success">>, <<"Pending", "Failure">>}

\* what the code does: the checks up to the first failing one are given
\* the two statuses, the checks after it none
C36_ChecksUpToFirstFailure ==
    ChecksRun =>
        \A i \in 1..Len(oneEval.checks) :
            CheckStates(oneEval.checks[i]) =
                IF FirstFailure = 0 \/ i < FirstFailure
                THEN <<"Pending", "Success">>
                ELSE IF i = FirstFailure THEN <<"Pending", "Failure">>
                ELSE <<>>

\* the first of two checks failed and the second was given no status
C36_SecondCheckNotRun ==
    /\ ChecksRun
    /\ Len(oneEval.checks) = 2
    /\ FirstFailure = 1
    /\ CheckStates(oneEval.checks[2]) = <<>>

-----------------------------------------------------------------------------
(* The QueuedBuildJobs record and the builds it stands for.                *)

\* the message is a build job sent to the builders of one architecture
IsBuildPublish(msg) ==
    msg.exchange = None /\ StartsWith(msg.routing_key, "build-inputs-")

\* the message is a QueuedBuildJobs record
IsQueuedPublish(msg) == msg.exchange = "build-results"

\* the member without the prefix of its path, if it has the prefix
Unprefixed(member, prefix) ==
    IF StartsWith(member.k, prefix)
    THEN <<[k |-> StripPrefix(member.k, prefix)[1], v |-> member.v]>>
    ELSE <<>>

\* the members of content below prefix, their paths relative to it
RECURSIVE Below(_, _)
Below(content, prefix) ==
    IF content = <<>> THEN <<>>
    ELSE Unprefixed(Head(content), prefix) \o Below(Tail(content), prefix)

\* the job of a QueuedBuildJobs record, as the JSON of a BuildJob
QueuedJob(content) == Below(content, "job.")

\* the architectures of a QueuedBuildJobs record, as JSON strings
QueuedArchitectures(content) ==
    LET members == Below(content, "architectures.")
    IN  [i \in 1..Len(members) |-> members[i].v]

\* the architectures the job was sent to in msgs, in order, as JSON strings
RECURSIVE SentTo(_, _)
SentTo(msgs, job) ==
    IF msgs = <<>> THEN <<>>
    ELSE (IF IsBuildPublish(Head(msgs)) /\ Head(msgs).content = job
          THEN <<JStr(StripPrefix(Head(msgs).routing_key, "build-inputs-")[1])>>
          ELSE <<>>)
         \o SentTo(Tail(msgs), job)

\* the messages of the publishes of actions, in order
PublishedMsgs(actions) ==
    LET p == Publishes(actions) IN [i \in 1..Len(p) |-> p[i].msg]

\* in msgs every record lists the architectures its job was sent to, all
\* of them sent before the record
RecordsMatch(msgs) ==
    \A q \in 1..Len(msgs) :
        IsQueuedPublish(msgs[q]) =>
            LET job == QueuedJob(msgs[q].content)
            IN  /\ SentTo(msgs, job) = QueuedArchitectures(msgs[q].content)
                /\ SentTo(SubSeq(msgs, 1, q - 1), job) = SentTo(msgs, job)

\* in msgs every build job sent has its record
BuildsRecorded(msgs) ==
    \A b \in 1..Len(msgs) :
        IsBuildPublish(msgs[b]) =>
            \E q \in (b + 1)..Len(msgs) :
                /\ IsQueuedPublish(msgs[q])
                /\ QueuedJob(msgs[q].content) = msgs[b].content

\* the evaluator or the comment filter returned its actions
BuildsPublishedBy(worker) ==
    /\ wWorker = worker
    /\ wPhase \in {"dispatching", "settled"}

\* C37: for every build job the evaluator or the comment filter publishes,
\* the architectures of its QueuedBuildJobs record are, in order, the
\* architectures to whose build destinations that job is published, and
\* the record is published after these; what the broker has accepted so
\* far never holds a record ahead of one of its builds.
C37_RecordListsTheBuilds ==
    BuildsPublishedBy("mass-rebuilder") \/ BuildsPublishedBy("github-comment-filter") =>
        /\ RecordsMatch(PublishedMsgs(wActions))
        /\ BuildsRecorded(PublishedMsgs(wActions))
        /\ RecordsMatch(wOutbox)

\* a trusted commenter asks for a test: the record lists the two
\* architectures that run NixOS tests, and it has been published
C37_Witness ==
    /\ BuildsPublishedBy("github-comment-filter")
    /\ \E q \in 1..Len(wOutbox) :
          /\ IsQueuedPublish(wOutbox[q])
          /\ QueuedArchitectures(wOutbox[q].content)
               = <<JStr("x86_64-linux"), JStr("aarch64-linux")>>
          /\ q = 3
    /\ build_job_architectures_for_user_repo(wJob[1].comment.user.login,
                                             wJob[1].repository.full_name)
         = Systems

\* the evaluator published a record with the architectures of its builds
C37_WitnessEvaluator ==
    /\ BuildsPublishedBy("mass-rebuilder")
    /\ \E q \in 1..Len(wOutbox) :
          /\ IsQueuedPublish(wOutbox[q])
          /\ Len(QueuedArchitectures(wOutbox[q].content)) >= 2

\* two build instructions of one comment, each with its record
C37_WitnessTwoJobs ==
    /\ BuildsPublishedBy("github-comment-filter")
    /\ Cardinality({q \in 1..Len(wActions) :
                       IsPublish(wActions[q])
                       /\ IsQueuedPublish(wActions[q].msg)}) = 2

-----------------------------------------------------------------------------
(* What the comment filter returns.                                        *)

\* the comment filter returned the actions for a comment
CommentReturned ==
    /\ wWorker = "github-comment-filter"
    /\ wPhase \in {"dispatching", "settled"}
    /\ wJob # <<>>

\* the architectures the ACL gives the commenter
CommenterArchs ==
    build_job_architectures_for_user_repo(wJob[1].comment.user.login,
                                          wJob[1].repository.full_name)

\* the forge was asked for the pull request and the request failed
PullFetchFailed == github # NoGithub /\ ~github.pull.ok

\* where the publishes of one instruction go, in order: the exchange of
\* the record, the routing key of a job
InstructionGoesTo(instruction) ==
    IF instruction.kind = "Eval" THEN <<"mass-rebuild-check-jobs">>
    ELSE LET archs == IF instruction.subset = "NixOS"
                      THEN SelectSeq(CommenterArchs, can_run_nixos_tests)
                      ELSE CommenterArchs
         IN  [i \in 1..Len(archs) |-> "build-inputs-" \o archs[i]]
             \o <<"build-results">>

RECURSIVE InstructionsGoTo(_)
InstructionsGoTo(instructions) ==
    IF instructions = <<>> THEN <<>>
    ELSE InstructionGoesTo(Head(instructions))
         \o InstructionsGoTo(Tail(instructions))

\* where the publish goes
GoesTo(msg) ==
    IF msg.exchange = None THEN msg.routing_key ELSE msg.exchange

\* the attributes an instruction asks for, as members of a build job
RECURSIVE AttrsAsked(_)
AttrsAsked(instructions) ==
    IF instructions = <<>> THEN <<>>
    ELSE LET i == Head(instructions)
         IN  (IF i.kind = "Eval" THEN <<Missing>>
              ELSE [a \in 1..Len(InstructionGoesTo(i)) |-> JStr(i.attrs[1])])
             \o AttrsAsked(Tail(instructions))

\* C38: the comment filter returns the single action Ack, and no Publish,
\* for a deleted comment, for a body without instructions, for a commenter
\* the ACL gives no build architecture for the repository (an eval
\* instruction in the body included) and for a pull request the forge does
\* not return; otherwise it returns, in the order of the instructions, the
\* publishes of each instruction (one evaluation job for an Eval, the build
\* job for each architecture and its record for a Build), all for the head
\* commit the forge returned, and then one Ack.
C38_CommentFilterActions ==
    CommentReturned =>
        LET job          == wJob[1]
            instructions == commentparser_parse(job.comment.body)
            msgs         == PublishedMsgs(wActions)
        IN  IF \/ job.action = "Deleted"
               \/ instructions = <<>>
               \/ CommenterArchs = <<>>
               \/ PullFetchFailed
            THEN wActions = <<Ack>>
            ELSE /\ github # NoGithub
                 /\ wActions[Len(wActions)] = Ack
                 /\ \A i \in 1..(Len(wActions) - 1) : IsPublish(wActions[i])
                 /\ [i \in 1..Len(msgs) |-> GoesTo(msgs[i])]
                      = InstructionsGoTo(instructions[1])
                 /\ \A i \in 1..Len(msgs) :
                       /\ Get(msgs[i].content,
                              IF IsQueuedPublish(msgs[i]) THEN "job.pr.head_sha"
                              ELSE "pr.head_sha") = JStr(github.pull.head_sha)
                       /\ Get(msgs[i].content,
                              IF IsQueuedPublish(msgs[i]) THEN "job.attrs.0"
                              ELSE "attrs.0") = AttrsAsked(instructions[1])[i]

\* a build and an eval instruction: the build jobs, the record, the
\* evaluation job, the Ack
C38_Witness ==
    /\ CommentReturned
    /\ wJob[1].comment.body = "@ofborg build hello @ofborg eval"
    /\ Len(CommenterArchs) = 2
    /\ Len(wActions) = 5
    /\ GoesTo(wActions[4].msg) = "mass-rebuild-check-jobs"

\* an eval instruction of a commenter without architectures: only the Ack
C38_WitnessNoArchitectures ==
    /\ CommentReturned
    /\ wJob[1].action = "Created"
    /\ wJob[1].comment.body = "@ofborg eval"
    /\ CommenterArchs = <<>>
    /\ wActions = <<Ack>>

\* the forge does not return the pull request: only the Ack
C38_WitnessFetchFailed ==
    /\ CommentReturned
    /\ PullFetchFailed
    /\ wActions = <<Ack>>

-----------------------------------------------------------------------------
(* The caches of the vending machine.                                      *)

\* no element of seq comes twice
NoRepeat(seq) ==
    \A i, j \in 1..Len(seq) : seq[i] = seq[j] => i = j

\* C39: over the for_repo calls of one vending machine the forge is asked
\* for the installation of an (owner, repo) at most once; what it answered
\* the first time, an id or a failure, is what every later call for that
\* pair goes by; and at most one client is made for an installation id, the
\* calls that come to the same id being handed the same client.
C39_LookedUpOnce ==
    /\ NoRepeat(vending.lookups)
    /\ NoRepeat(vending.constructed)
    /\ \A i, j \in 1..Len(vending.calls) :
          LET first == vending.calls[i]
              later == vending.calls[j]
          IN  /\ i < j /\ first.key = later.key =>
                    /\ later.id = first.id
                    /\ later.client = first.client
              /\ first.id = later.id /\ first.id # <<>> =>
                    /\ first.client = later.client
                    /\ first.client # <<>>
              /\ first.id = <<>> => first.client = <<>>
    /\ \A c \in 1..Len(vending.calls) :
          \E l \in 1..Len(vending.lookups) :
              vending.lookups[l] = vending.calls[c].key

\* a failed lookup is returned again, and two repositories of one
\* installation share the one client made for it
C39_Witness ==
    /\ Len(vending.calls) = 4
    /\ vending.calls[1].key = vending.calls[2].key
    /\ vending.calls[1].id = <<>>
    /\ vending.calls[3].key # vending.calls[4].key
    /\ vending.calls[3].id = <<7>>
    /\ vending.calls[4].id = <<7>>
    /\ Len(vending.lookups) = 3
    /\ Len(vending.constructed) = 1

\* two installations, a client for each
C39_WitnessTwoClients ==
    /\ Len(vending.constructed) = 2
    /\ \E i, j \in 1..Len(vending.calls) :
          /\ vending.calls[i].client = <<1>>
          /\ vending.calls[j].client = <<2>>

-----------------------------------------------------------------------------
(* OutPathDiff: when the two maps are set.                                 *)

\* current is set only with original; package_diff and calculate_rebuild
\* return a result exactly after a find_before and a later find_after
\* that both returned Ok; a find_after with no find_before that returned Ok
\* before it returns Ok and has not run the evaluator
DiffState ==
    /\ outPathDiff.current # <<>> => outPathDiff.original # <<>>
    /\ "package_diff" \in diffed.called =>
          (diffed.diff # <<>> <=> diffed.before_ok /\ diffed.after_ok)
    /\ "calculate_rebuild" \in diffed.called =>
          (diffed.rebuild # <<>> <=> diffed.before_ok /\ diffed.after_ok)
    /\ diffed.last.op = "find_after" /\ ~diffed.before_ok =>
          ~diffed.last.ran /\ diffed.last.result = "Ok"

\* a map changes only by a call that ran the evaluator and returned Ok,
\* find_before changing original and find_after current
DiffStep ==
    outPathDiff' # outPathDiff =>
        /\ diffed'.last.ran
        /\ diffed'.last.result = "Ok"
        /\ diffed'.last.op = "find_before" =>
              outPathDiff'.current = outPathDiff.current
        /\ diffed'.last.op = "find_after" =>
              /\ outPathDiff'.original = outPathDiff.original
              /\ diffed.before_ok

\* C40: after any sequence of find_before and find_after calls current is
\* set only if original is; package_diff and calculate_rebuild return a
\* result if and only if a find_before and a later find_after have both
\* succeeded; a find_after with no successful find_before before it returns
\* Ok without running the evaluator and leaves both maps as they are; and a
\* run that fails leaves the map stored before as it is.
C40_OutPathDiff == []DiffState /\ [][DiffStep]_vars

\* a find_after whose run failed, with the current of an earlier one kept
C40_Witness ==
    /\ diffed.last = [op |-> "find_after", ran |-> TRUE, result |-> "Err"]
    /\ outPathDiff.current # <<>>
    /\ outPathDiff.original # <<>>
    /\ diffed.after_ok

\* a find_after before any find_before: Ok, nothing run, nothing set
C40_WitnessNothingBefore ==
    /\ diffed.last = [op |-> "find_after", ran |-> FALSE, result |-> "Ok"]
    /\ outPathDiff = [original |-> <<>>, current |-> <<>>]
    /\ diffed.called = {"package_diff", "calculate_rebuild"}
    /\ diffed.diff = <<>>
    /\ diffed.rebuild = <<>>

\* both calls succeeded and both questions are answered
C40_WitnessDiffed ==
    /\ diffed.before_ok
    /\ diffed.after_ok
    /\ diffed.called = {"package_diff", "calculate_rebuild"}
    /\ diffed.diff # <<>>
    /\ diffed.rebuild # <<>>

\* only find_before succeeded: no result
C40_WitnessBeforeOnly ==
    /\ diffed.before_ok
    /\ ~diffed.after_ok
    /\ diffed.last.op = "find_after"
    /\ diffed.last.result = "Err"
    /\ "package_diff" \in diffed.called
    /\ diffed.diff = <<>>

=============================================================================
